---------------------------- MODULE Spec2Model ----------------------------
(***************************************************************************)
(* Natural-language request interpreter of mcp-ccpi: the rule-based        *)
(* classifier (parse_request), the configuration generator                 *)
(* (generate_resource_config) and the response generator                   *)
(* (generate_response), in the operation-aware variant of                  *)
(* src/app/llm_interface.py and the schema-aware variant of                *)
(* src/mcp-ccapi/app/llm_interface.py.                                     *)
(*                                                                         *)
(* A Python str is a sequence of lexemes.  A lexeme is either a word (a    *)
(* maximal run of \w characters) or a run of non-word characters; one      *)
(* blank is understood between two adjacent word lexemes, so               *)
(* <<"Set", "up", "AWS", "::", "S3", "::", "Bucket">> is the text          *)
(* "Set up AWS::S3::Bucket".  Literal pieces of the f-string templates are *)
(* lexemes of their own.  String concatenation is \o and "x in s" is       *)
(* Contains(s, x).                                                         *)
(***************************************************************************)
EXTENDS Integers, Sequences, FiniteSets, TLC

VARIABLES
    pc,        \* position of the caller: "input", then "parsed" / "built" / "rendered"
    text,      \* the request text handed to parse_request / parse_validation_request
    request,   \* the ParsedRequest (dict of parse_request)
    vrequest,  \* the dict of parse_validation_request
    config,    \* the dict returned by generate_resource_config
    result,    \* the optional OperationResult handed to generate_response
    response,  \* the text returned by generate_response
    variant,   \* "app": src/app/llm_interface.py, "ccapi": src/mcp-ccapi/app
    schema_manager, \* the schema store of the schema-aware variant
    again,     \* the text of a second generate_response on the same arguments
    call,      \* a direct call of a schema manager method and what it returned
    backend,   \* the Cloud Control client calls of one API request, in order
    reply,     \* the NaturalLanguageResponse of process_natural_language_request
    rules_dir, \* the files of GuardValidator.rules_dir: file name -> text on disk
    saved_rules \* history: rule file name -> content of its last successful save

vars == <<pc, text, request, vrequest, config, result, response, variant,
          schema_manager, again, call, backend, reply, rules_dir, saved_rules>>

\* The variables of the rule store.
guard == <<rules_dir, saved_rules>>

\* The variables of the API handler and of the direct schema manager calls.
aux == <<call, backend, reply, guard>>

-----------------------------------------------------------------------------
(* Python values *)

\* The None object, kept apart from every str.
None == <<"#None">>

\* Truthiness of a str-or-None value: None and "" are falsy.
Truthy(v) == v # None /\ v # <<>>

\* dict.get(key) and dict.get(key, default) on a dict modelled as a record.
Get(d, k) == IF k \in DOMAIN d THEN d[k] ELSE None

GetOr(d, k, default) == IF k \in DOMAIN d THEN d[k] ELSE default

\* "needle in hay" for two strs.
Contains(hay, needle) ==
    \E i \in 1..(Len(hay) + 1) :
        /\ i + Len(needle) - 1 <= Len(hay)
        /\ SubSeq(hay, i, i + Len(needle) - 1) = needle

\* hay.endswith(needle)
EndsWith(hay, needle) ==
    /\ Len(needle) <= Len(hay)
    /\ SubSeq(hay, Len(hay) - Len(needle) + 1, Len(hay)) = needle

\* An insertion-ordered dict str -> value: a sequence of <<key, value>> pairs
\* with pairwise distinct keys.
Keys(d) == { d[i][1] : i \in 1..Len(d) }

KeySeq(d) == [i \in 1..Len(d) |-> d[i][1]]

Lookup(d, k) == LET i == CHOOSE j \in 1..Len(d) : d[j][1] = k IN d[i][2]

\* d[k] = v: an existing key keeps its position, a new key is appended.
SetItem(d, k, v) ==
    IF k \in Keys(d)
    THEN [i \in 1..Len(d) |-> IF d[i][1] = k THEN <<k, v>> ELSE d[i]]
    ELSE Append(d, <<k, v>>)

\* d.update(e): SetItem for every pair of e, in e's order.
RECURSIVE Update(_, _)
Update(d, e) ==
    IF e = <<>> THEN d
    ELSE Update(SetItem(d, Head(e)[1], Head(e)[2]), Tail(e))

\* sep.join(parts) for a sequence of strs.
RECURSIVE Join(_, _)
Join(sep, parts) ==
    IF parts = <<>> THEN <<>>
    ELSE IF Len(parts) = 1 THEN parts[1]
    ELSE parts[1] \o sep \o Join(sep, Tail(parts))

\* s.lstrip('/'): every leading slash is removed.
RECURSIVE LStripSlash(_)
LStripSlash(s) ==
    IF s # <<>> /\ Head(s) = "/" THEN LStripSlash(Tail(s)) ELSE s

-----------------------------------------------------------------------------
(* Texts and the regular expressions of the classifier *)

\* str.lower() of one lexeme, for the lexemes used here that contain an
\* upper-case letter; every other lexeme is left as it is.
LowerLexeme(l) ==
    CASE l = "Create"   -> "create"
      [] l = "Set"      -> "set"
      [] l = "Delete"   -> "delete"
      [] l = "AWS"      -> "aws"
      [] l = "xAWS"     -> "xaws"
      [] l = "S3"       -> "s3"
      [] l = "Bucket"   -> "bucket"
      [] l = "Lambda"   -> "lambda"
      [] l = "Function" -> "function"
      [] l = "Table"    -> "table"
      [] l = "Name"     -> "name"
      [] l = "BucketName" -> "bucketname"
      [] l = "TableName"  -> "tablename"
      [] l = "Versioning" -> "versioning"
      [] OTHER          -> l

\* text.lower()
Lower(t) == [i \in 1..Len(t) |-> LowerLexeme(t[i])]

\* re.search(r'\b(k1|k2|...)\b', t): some alternative, a sequence of words
\* separated by one blank, occurs in t as whole words.
SearchWords(t, alternatives) ==
    \E kw \in alternatives : \E i \in 1..Len(t) :
        /\ i + Len(kw) - 1 <= Len(t)
        /\ SubSeq(t, i, i + Len(kw) - 1) = kw

\* The synonym sets of the operation regexes (src/app/llm_interface.py:55-63).
CreateWords == { <<"create">>, <<"make">>, <<"provision">>, <<"deploy">>,
                 <<"set", "up">>, <<"launch">> }

GetWords == { <<"get">>, <<"fetch">>, <<"retrieve">>, <<"show">>,
              <<"display">>, <<"describe">> }

ListWords == { <<"list">>, <<"show", "all">>, <<"get", "all">>,
               <<"enumerate">>, <<"find", "all">> }

UpdateWords == { <<"update">>, <<"modify">>, <<"change">>, <<"edit">>,
                 <<"alter">> }

DeleteWords == { <<"delete">>, <<"remove">>, <<"destroy">>,
                 <<"tear", "down">>, <<"terminate">> }

\* The values of the operation field.
CREATE == <<"CREATE">>

GET == <<"GET">>

LIST == <<"LIST">>

UPDATE == <<"UPDATE">>

DELETE == <<"DELETE">>

VALIDATE == <<"VALIDATE">>

\* The if/elif chain over the operation regexes.  DetectOperationListFirst is
\* the chain with LIST tested before GET, which the priority property tells
\* apart from the chain of the code.
DetectOperationListFirst(t) ==
    LET low == Lower(t) IN
    IF SearchWords(low, CreateWords) THEN CREATE
    ELSE IF SearchWords(low, ListWords) THEN LIST
    ELSE IF SearchWords(low, GetWords) THEN GET
    ELSE IF SearchWords(low, UpdateWords) THEN UPDATE
    ELSE IF SearchWords(low, DeleteWords) THEN DELETE
    ELSE None

DetectOperation(t) ==
    LET low == Lower(t) IN
    IF SearchWords(low, CreateWords) THEN CREATE
    ELSE IF SearchWords(low, GetWords) THEN GET
    ELSE IF SearchWords(low, ListWords) THEN LIST
    ELSE IF SearchWords(low, UpdateWords) THEN UPDATE
    ELSE IF SearchWords(low, DeleteWords) THEN DELETE
    ELSE None

\* The word lexemes (runs of \w) among the lexemes a text is made of.
Words == { "create", "Create", "created", "make", "Set", "set", "up", "show",
           "get", "all", "list", "find", "update", "delete", "Delete",
           "AWS", "xAWS", "aws", "S3", "s3", "sqs", "Bucket", "bucket",
           "Lambda", "Function", "function", "Table", "table", "server",
           "db", "topic", "queue", "Name", "name", "named", "with", "is",
           "id", "identifier", "foo", "bar", "x1", "versioning", "enabled",
           "a", "an", "recreate", "buckets", "dynamodb", "lambda",
           "BucketName", "bucketname", "TableName", "tablename", "qux", "t1",
           "Versioning", "configuration", "disabled", "true", "false",
           "public", "access", "blocked", "allowed", "encryption",
           "b", "1", "2", "oops", "9...9" }

IsWord(l) == l \in Words

\* Words that end in the letters AWS: r'(AWS::\w+::\w+)' carries no \b, so
\* its match may begin inside a word.
EndsInAWS(l) == l \in { "AWS", "xAWS" }

\* Whether r'(AWS::\w+::\w+)' matches with its AWS at lexeme i of t.
ExplicitTypeAt(t, i) ==
    /\ i + 4 <= Len(t)
    /\ EndsInAWS(t[i])
    /\ t[i + 1] = "::"
    /\ IsWord(t[i + 2])
    /\ t[i + 3] = "::"
    /\ IsWord(t[i + 4])

\* re.search(r'(AWS::\w+::\w+)', text).group(1): the leftmost match, None
\* when there is none.  The case of the text is kept.
ExplicitType(t) ==
    IF \E i \in 1..Len(t) : ExplicitTypeAt(t, i)
    THEN LET i == CHOOSE j \in 1..Len(t) :
                    /\ ExplicitTypeAt(t, j)
                    /\ \A k \in 1..(j - 1) : ~ExplicitTypeAt(t, k)
         IN <<"AWS", "::", t[i + 2], "::", t[i + 4]>>
    ELSE None

\* The resource type names of the keyword table.
S3Bucket == <<"AWS", "::", "S3", "::", "Bucket">>

LambdaFunction == <<"AWS", "::", "Lambda", "::", "Function">>

DynamoDBTable == <<"AWS", "::", "DynamoDB", "::", "Table">>

EC2Instance == <<"AWS", "::", "EC2", "::", "Instance">>

RDSDBInstance == <<"AWS", "::", "RDS", "::", "DBInstance">>

SNSTopic == <<"AWS", "::", "SNS", "::", "Topic">>

SQSQueue == <<"AWS", "::", "SQS", "::", "Queue">>

\* The keyword sets of the table rows (src/app/llm_interface.py:72-85).
S3Words == { <<"s3">>, <<"bucket">>, <<"storage">> }

LambdaWords == { <<"lambda">>, <<"function">> }

DynamoDBWords == { <<"dynamodb">>, <<"dynamo">>, <<"table">> }

EC2Words == { <<"ec2">>, <<"instance">>, <<"server">>, <<"vm">> }

RDSWords == { <<"rds">>, <<"database">>, <<"db">> }

SNSWords == { <<"sns">>, <<"topic">>, <<"notification">> }

SQSWords == { <<"sqs">>, <<"queue">> }

\* The if/elif chain over the keyword table, on the lower-cased text.
InferType(t) ==
    LET low == Lower(t) IN
    IF SearchWords(low, S3Words) THEN S3Bucket
    ELSE IF SearchWords(low, LambdaWords) THEN LambdaFunction
    ELSE IF SearchWords(low, DynamoDBWords) THEN DynamoDBTable
    ELSE IF SearchWords(low, EC2Words) THEN EC2Instance
    ELSE IF SearchWords(low, RDSWords) THEN RDSDBInstance
    ELSE IF SearchWords(low, SNSWords) THEN SNSTopic
    ELSE IF SearchWords(low, SQSWords) THEN SQSQueue
    ELSE None

\* Resource type detection of parse_request.  DetectResourceTypeTableFirst
\* is the reverse order: the keyword table first, the explicit pattern only
\* when no row matches.
DetectResourceTypeTableFirst(t) ==
    IF InferType(t) # None THEN InferType(t) ELSE ExplicitType(t)

DetectResourceType(t) ==
    IF ExplicitType(t) # None THEN ExplicitType(t) ELSE InferType(t)

\* Resource type detection of parse_validation_request: a second copy of
\* the same cascade in the source.
ValidationInferType(t) ==
    LET low == Lower(t) IN
    IF SearchWords(low, S3Words) THEN S3Bucket
    ELSE IF SearchWords(low, LambdaWords) THEN LambdaFunction
    ELSE IF SearchWords(low, DynamoDBWords) THEN DynamoDBTable
    ELSE IF SearchWords(low, EC2Words) THEN EC2Instance
    ELSE IF SearchWords(low, RDSWords) THEN RDSDBInstance
    ELSE IF SearchWords(low, SNSWords) THEN SNSTopic
    ELSE IF SearchWords(low, SQSWords) THEN SQSQueue
    ELSE None

ValidationDetectResourceType(t) ==
    IF ExplicitType(t) # None THEN ExplicitType(t) ELSE ValidationInferType(t)

-----------------------------------------------------------------------------
(* The property extractor.  Its texts are sequences of lexemes in which a   *)
(* delimiter stands between two words or, for the closing quote, at the end *)
(* (no two delimiters are adjacent), and in which no lexeme holds a brace.  *)
(* The delimiters are "::", ": ", ": '", " '", "' ", ", ", "-" and "/".     *)

\* Words whose last letters are the keyword: the name and identifier
\* regexes carry no \b, so a keyword may begin inside a word.
EndsInNamed(l) == l \in { "named" }

EndsInCalled(l) == l \in { "called" }

EndsInWith(l) == l \in { "with" }

EndsInName(l) == l \in { "name" }

EndsInIdentifier(l) == l \in { "identifier" }

EndsInId(l) == l \in { "id" }

\* Number of lexemes that (?:named|called|with name|name is|name it) takes
\* when it matches at lexeme i of the lower-cased text; 0 when it does not.
NameKeywordAt(low, i) ==
    IF EndsInNamed(low[i]) \/ EndsInCalled(low[i]) THEN 1
    ELSE IF /\ EndsInWith(low[i])
            /\ i + 1 <= Len(low)
            /\ low[i + 1] = "name" THEN 2
    ELSE IF /\ EndsInName(low[i])
            /\ i + 1 <= Len(low)
            /\ low[i + 1] \in { "is", "it" } THEN 2
    ELSE 0

\* Where the captured group starts when \s+["']? is matched after a keyword
\* that ends with lexeme j - 1; 0 when \s+ does not match there.  A word at j
\* is preceded by the understood blank; " '" is a blank and the quote.
ValueStartAfterBlank(low, j) ==
    IF j > Len(low) THEN 0
    ELSE IF IsWord(low[j]) THEN j
    ELSE IF low[j] = " '" /\ j + 1 <= Len(low) /\ IsWord(low[j + 1]) THEN j + 1
    ELSE 0

\* The part of delimiter d, from its first character on, that lies in the
\* character class: [a-zA-Z0-9-_] for a name, [a-zA-Z0-9-_:/] for an
\* identifier.  The empty string when d's first character is outside it.
NameClassPrefix(d) == IF d = "-" THEN "-" ELSE ""

IdentifierClassPrefix(d) ==
    CASE d = "-"   -> "-"
      [] d = "/"   -> "/"
      [] d = "::"  -> "::"
      [] d = ": "  -> ":"
      [] d = ": '" -> ":"
      [] OTHER     -> ""

\* The maximal run of class characters from word lexeme k on: the word, then
\* as long as a delimiter lies wholly in the class and a word follows it,
\* the delimiter and the word; at the end the class prefix of the next
\* delimiter.  Two adjacent words are separated by a blank, which ends the
\* run.  forId selects the identifier class.
RECURSIVE ClassRun(_, _, _)
ClassRun(low, k, forId) ==
    LET prefix(d) == IF forId THEN IdentifierClassPrefix(d)
                     ELSE NameClassPrefix(d)
    IN  IF k + 1 > Len(low) \/ IsWord(low[k + 1]) THEN <<low[k]>>
        ELSE IF prefix(low[k + 1]) = "" THEN <<low[k]>>
        ELSE IF prefix(low[k + 1]) # low[k + 1] \/ k + 2 > Len(low)
             THEN <<low[k], prefix(low[k + 1])>>
        ELSE <<low[k], low[k + 1]>> \o ClassRun(low, k + 2, forId)

\* Whether the name regex matches with its keyword at lexeme i.
NameMatchAt(low, i) ==
    /\ NameKeywordAt(low, i) > 0
    /\ ValueStartAfterBlank(low, i + NameKeywordAt(low, i)) > 0

\* re.search of the name regex on text.lower(): group(1) of the leftmost
\* match, None when there is none.
ExtractName(t) ==
    LET low == Lower(t) IN
    IF \E i \in 1..Len(low) : NameMatchAt(low, i)
    THEN LET i == CHOOSE j \in 1..Len(low) :
                    /\ NameMatchAt(low, j)
                    /\ \A k \in 1..(j - 1) : ~NameMatchAt(low, k)
         IN ClassRun(low, ValueStartAfterBlank(low, i + NameKeywordAt(low, i)),
                     FALSE)
    ELSE None

\* Where the captured group of the identifier regex starts when
\* (?:with id|identifier|id is|id:|identifier is)\s+["']? matches at lexeme
\* i; 0 when it does not.  "identifier is" is never reached: whenever it
\* would match, "identifier" has matched before it.
IdentifierValueStart(low, i) ==
    IF EndsInWith(low[i]) /\ i + 1 <= Len(low) /\ low[i + 1] = "id"
    THEN ValueStartAfterBlank(low, i + 2)
    ELSE IF EndsInIdentifier(low[i])
    THEN ValueStartAfterBlank(low, i + 1)
    ELSE IF EndsInId(low[i]) /\ i + 1 <= Len(low) /\ low[i + 1] = "is"
    THEN ValueStartAfterBlank(low, i + 2)
    ELSE IF /\ EndsInId(low[i])
            /\ i + 2 <= Len(low)
            /\ low[i + 1] \in { ": ", ": '" }
            /\ IsWord(low[i + 2])
    THEN i + 2
    ELSE 0

\* re.search of the identifier regex on text.lower().
ExtractIdentifier(t) ==
    LET low == Lower(t) IN
    IF \E i \in 1..Len(low) : IdentifierValueStart(low, i) > 0
    THEN LET i == CHOOSE j \in 1..Len(low) :
                    /\ IdentifierValueStart(low, j) > 0
                    /\ \A k \in 1..(j - 1) : IdentifierValueStart(low, k) = 0
         IN ClassRun(low, IdentifierValueStart(low, i), TRUE)
    ELSE None

\* Delimiters that [\s]*[=:]+[\s]*["']? matches as a whole.
KvSeparator(d) == d \in { "::", ": ", ": '" }

\* Delimiters that hold a comma or a quote: [^,"']+ ends there.
KvStop(d) == d \in { ", ", " '", "' ", ": '" }

\* What a stopping delimiter adds to the value before its comma or quote,
\* after strip().
KvStopPrefix(d) == IF d = ": '" THEN <<":">> ELSE <<>>

\* Index of the first stopping delimiter at or after k, Len(t) + 1 when
\* there is none.
RECURSIVE KvValueEnd(_, _)
KvValueEnd(t, k) ==
    IF k > Len(t) THEN k
    ELSE IF KvStop(t[k]) THEN k
    ELSE KvValueEnd(t, k + 1)

\* for match in re.finditer(kv regex, text): properties[key] = value, from
\* lexeme i on.  A match is a word, a separator and the value up to the next
\* stopping delimiter; the scan goes on behind it.
RECURSIVE KvScan(_, _, _)
KvScan(t, i, properties) ==
    IF i > Len(t) THEN properties
    ELSE IF /\ IsWord(t[i])
            /\ i + 2 <= Len(t)
            /\ KvSeparator(t[i + 1])
    THEN LET e == KvValueEnd(t, i + 2)
             value == SubSeq(t, i + 2, e - 1)
                      \o (IF e <= Len(t) THEN KvStopPrefix(t[e]) ELSE <<>>)
         IN KvScan(t, e + 1, SetItem(properties, <<t[i]>>, value))
    ELSE KvScan(t, i + 1, properties)

\* The brace lexemes: an opening brace after a blank, and a closing brace.
\* In a text every opening brace but the first follows a closing brace.
OpenBrace == " {"

CloseBrace == "}"

\* The word that stands for an integer literal of 5000 digits.
LongInteger == "9...9"

\* re.search(r'{(.*)}', text, re.DOTALL): the lexemes from behind the first
\* opening brace up to the last closing brace, that brace included; <<>>
\* without a match.
JsonSpan(t) ==
    LET opens  == { i \in 1..Len(t) : t[i] = OpenBrace }
        first  == CHOOSE i \in opens : \A j \in opens : i <= j
        closes == { i \in 1..Len(t) : t[i] = CloseBrace /\ i > first }
        last   == CHOOSE i \in closes : \A j \in closes : j <= i
    IN IF opens = {} \/ closes = {} THEN <<>>
       ELSE SubSeq(t, first + 1, last)

\* re.sub(r',\s*}', '}', json_str): a comma right before a closing brace
\* goes.
RECURSIVE DropTrailingCommas(_)
DropTrailingCommas(c) ==
    IF c = <<>> THEN <<>>
    ELSE IF Len(c) >= 2 /\ c[1] = ", " /\ c[2] = CloseBrace
    THEN DropTrailingCommas(Tail(c))
    ELSE <<Head(c)>> \o DropTrailingCommas(Tail(c))

\* The Python value of a JSON scalar written as one word, kept as its str
\* (the int 1 as "1"); None for a word that is no JSON value.
JsonValue(l) ==
    IF l \in { "1", "2" } THEN <<l>>
    ELSE IF l = "true" THEN <<"True">>
    ELSE IF l = "false" THEN <<"False">>
    ELSE None

\* json.loads of the repaired span c from its key position i on, d being
\* the pairs read so far.  re.sub(r'(\w+):', r'"\1":', json_str) has put
\* every word that a colon follows in double quotes: such a word is a
\* string.  The decoder reads from left to right; it converts an integer
\* literal when it reaches it, and int() refuses one of more than 4300
\* digits with a ValueError that is no JSONDecodeError.
RECURSIVE JsonPairs(_, _, _)
JsonPairs(c, i, d) ==
    LET error == [ kind |-> "JSONDecodeError" ] IN
    IF c[i] = CloseBrace
    THEN IF i = 1 /\ Len(c) = 1 THEN [ kind |-> "dict", data |-> d ] ELSE error
    ELSE IF ~(IsWord(c[i]) /\ c[i + 1] = ": ") THEN error
    ELSE IF c[i + 2] = LongInteger /\ ~KvSeparator(c[i + 3])
    THEN [ kind |-> "ValueError" ]
    ELSE IF JsonValue(c[i + 2]) = None THEN error
    ELSE IF c[i + 3] = CloseBrace
    THEN IF i + 3 = Len(c)
         THEN [ kind |-> "dict",
                data |-> SetItem(d, <<c[i]>>, JsonValue(c[i + 2])) ]
         ELSE error
    ELSE IF c[i + 3] = ", "
    THEN JsonPairs(c, i + 4, SetItem(d, <<c[i]>>, JsonValue(c[i + 2])))
    ELSE error

\* The try block on the brace-delimited span: kind is "none" without a
\* span, else what json.loads does.
JsonBlock(t) ==
    IF JsonSpan(t) = <<>> THEN [ kind |-> "none" ]
    ELSE JsonPairs(DropTrailingCommas(JsonSpan(t)), 1, <<>>)

\* Whether the property extraction raises: only JSONDecodeError is caught.
PropertiesRaise(t) == JsonBlock(t).kind = "ValueError"

\* The properties of parse_request and parse_validation_request: the
\* key/value pairs, updated with the pairs of the span when it parses.
ExtractProperties(t) ==
    IF JsonBlock(t).kind = "dict"
    THEN Update(KvScan(t, 1, <<>>), JsonBlock(t).data)
    ELSE KvScan(t, 1, <<>>)

\* LLMInterface.parse_request (operation-aware variant); [raised |-> TRUE]
\* when the call raises.  parse_request_any_identifier looks for the
\* identifier whatever the operation is.
parse_request_any_identifier(t) ==
    IF PropertiesRaise(t) THEN [ raised |-> TRUE ] ELSE
    [ original_text |-> t,
      operation     |-> DetectOperation(t),
      resource_type |-> DetectResourceType(t),
      resource_name |-> ExtractName(t),
      properties    |-> ExtractProperties(t),
      identifier    |-> ExtractIdentifier(t) ]

parse_request(t) ==
    LET operation == DetectOperation(t) IN
    IF PropertiesRaise(t) THEN [ raised |-> TRUE ] ELSE
    [ original_text |-> t,
      operation     |-> operation,
      resource_type |-> DetectResourceType(t),
      resource_name |-> ExtractName(t),
      properties    |-> ExtractProperties(t),
      identifier    |-> IF operation \in { GET, UPDATE, DELETE }
                        THEN ExtractIdentifier(t) ELSE None ]

\* LLMInterface.parse_validation_request.  No word of a text ends in
\* "rule", so the rule-name regex finds nothing and rule_names stays [].
parse_validation_request(t) ==
    IF PropertiesRaise(t) THEN [ raised |-> TRUE ] ELSE
    [ original_text |-> t,
      operation     |-> VALIDATE,
      resource_type |-> ValidationDetectResourceType(t),
      properties    |-> ExtractProperties(t),
      rule_names    |-> <<>> ]

-----------------------------------------------------------------------------
(* The configuration generator and the response generator of the           *)
(* operation-aware variant (src/app/llm_interface.py).  A dict with a fixed *)
(* choice of keys is a record; "k in d" is k \in DOMAIN d.                  *)

\* str(v) inside an f-string.
Str(v) == IF v = None THEN <<"None">> ELSE v

\* The error strings of generate_resource_config.
OperationError == <<"Operation not specified or could not be determined">>

ResourceTypeError == <<"Resource type not specified or could not be determined">>

IdentifierError(operation) ==
    <<"Identifier is required for ">> \o operation \o <<" operation">>

NoPropertiesError == <<"No properties specified for UPDATE operation">>

ErrorVariant(error, parsed_request) ==
    [ error |-> error, parsed_request |-> parsed_request ]

\* The desired_state of a CREATE.  DesiredStateNameLast is the reverse
\* order: the properties first and the name after them.
DesiredStateNameLast(parsed_request) ==
    LET properties == parsed_request.properties IN
    IF Truthy(parsed_request.resource_name)
    THEN SetItem(properties, <<"Name">>, parsed_request.resource_name)
    ELSE properties

DesiredState(parsed_request) ==
    LET named == IF Truthy(parsed_request.resource_name)
                 THEN <<  <<(<<"Name">>), parsed_request.resource_name>>  >>
                 ELSE <<>>
    IN Update(named, parsed_request.properties)

\* One JSON Patch entry per item of properties, in its order.
\* PatchDocumentReversed walks the items from the last to the first.
PatchEntry(key, value) ==
    [ op |-> <<"replace">>, path |-> <<"/">> \o key, value |-> value ]

PatchDocumentReversed(properties) ==
    [i \in 1..Len(properties) |->
        PatchEntry(properties[Len(properties) + 1 - i][1],
                   properties[Len(properties) + 1 - i][2])]

PatchDocument(properties) ==
    [i \in 1..Len(properties) |->
        PatchEntry(properties[i][1], properties[i][2])]

\* The checks on operation and resource_type.  RequiredFieldErrorTypeFirst
\* tests the resource type first.
RequiredFieldErrorTypeFirst(parsed_request) ==
    IF ~Truthy(parsed_request.resource_type) THEN ResourceTypeError
    ELSE IF ~Truthy(parsed_request.operation) THEN OperationError
    ELSE None

RequiredFieldError(parsed_request) ==
    IF ~Truthy(parsed_request.operation) THEN OperationError
    ELSE IF ~Truthy(parsed_request.resource_type) THEN ResourceTypeError
    ELSE None

\* The UPDATE branch.  UpdateConfigPropertiesFirst looks at the properties
\* before the identifier.
UpdateConfigPropertiesFirst(parsed_request) ==
    IF parsed_request.properties = <<>>
    THEN ErrorVariant(NoPropertiesError, parsed_request)
    ELSE IF ~Truthy(parsed_request.identifier)
    THEN ErrorVariant(IdentifierError(UPDATE), parsed_request)
    ELSE [ operation      |-> parsed_request.operation,
           type_name      |-> parsed_request.resource_type,
           identifier     |-> parsed_request.identifier,
           patch_document |-> PatchDocument(parsed_request.properties) ]

UpdateConfig(parsed_request) ==
    IF ~Truthy(parsed_request.identifier)
    THEN ErrorVariant(IdentifierError(UPDATE), parsed_request)
    ELSE IF parsed_request.properties = <<>>
    THEN ErrorVariant(NoPropertiesError, parsed_request)
    ELSE [ operation      |-> parsed_request.operation,
           type_name      |-> parsed_request.resource_type,
           identifier     |-> parsed_request.identifier,
           patch_document |-> PatchDocument(parsed_request.properties) ]

\* LLMInterface.generate_resource_config (operation-aware variant).
generate_resource_config(parsed_request) ==
    LET operation     == parsed_request.operation
        resource_type == parsed_request.resource_type
    IN
    IF RequiredFieldError(parsed_request) # None
    THEN ErrorVariant(RequiredFieldError(parsed_request), parsed_request)
    ELSE IF operation = CREATE
    THEN [ operation     |-> operation,
           type_name     |-> resource_type,
           desired_state |-> DesiredState(parsed_request) ]
    ELSE IF operation \in { GET, DELETE }
    THEN IF ~Truthy(parsed_request.identifier)
         THEN ErrorVariant(IdentifierError(operation), parsed_request)
         ELSE [ operation  |-> operation,
                type_name  |-> resource_type,
                identifier |-> parsed_request.identifier ]
    ELSE IF operation = UPDATE
    THEN UpdateConfig(parsed_request)
    ELSE [ operation |-> operation, type_name |-> resource_type ]

-----------------------------------------------------------------------------
(* generate_response, operation-aware variant *)

\* The closing question of every preview.
ProceedQuestion == <<"Would you like me to proceed?">>

\* The text returned when no branch matched.
FallbackResponse ==
    <<"I've processed your request, but I'm not sure how to describe the result.">>

\* ", ".join([f"{k}: {v}" for k, v in desired_state.items()])
PropertiesStr(desired_state) ==
    Join(<<", ">>, [i \in 1..Len(desired_state) |->
                        desired_state[i][1] \o <<": ">> \o Str(desired_state[i][2])])

\* ", ".join([f"{p['path'].lstrip('/')}: {p['value']}" for p in patch_document])
ChangesStr(patch_document) ==
    Join(<<", ">>, [i \in 1..Len(patch_document) |->
                        LStripSlash(patch_document[i].path) \o <<": ">>
                            \o Str(patch_document[i].value)])

\* json.dumps(properties, indent=2) of a dict str -> str.
JsonDumps(properties) ==
    IF properties = <<>> THEN <<"{}">>
    ELSE <<"{\n">>
         \o Join(<<",\n">>, [i \in 1..Len(properties) |->
                    <<"  \"">> \o properties[i][1] \o <<"\": \"">>
                        \o properties[i][2] \o <<"\"">>])
         \o <<"\n}">>

\* "\n".join([f"- {r['identifier']}" for r in resources])
ResourcesStr(resources) ==
    Join(<<"\n">>, [i \in 1..Len(resources) |->
                        <<"- ">> \o Str(resources[i].identifier)])

\* The number n of f"{n}".
IntStr(n) == <<ToString(n)>>

\* The message for a configuration that carries an error.
ErrorResponse(resource_config) ==
    <<"I couldn't process your request. ">> \o Str(resource_config.error)
        \o <<". Please provide more information.">>

\* The preview branch: "if not result".
PreviewResponse(resource_config) ==
    LET operation  == Get(resource_config, "operation")
        type_name  == Str(Get(resource_config, "type_name"))
        identifier == Str(Get(resource_config, "identifier"))
    IN
    IF operation = CREATE
    THEN <<"I'll create a new ">> \o type_name
            \o <<" resource with the following properties: ">>
            \o PropertiesStr(GetOr(resource_config, "desired_state", <<>>))
            \o <<". ">> \o ProceedQuestion
    ELSE IF operation = GET
    THEN <<"I'll retrieve the ">> \o type_name
            \o <<" resource with identifier '">> \o identifier
            \o <<"'. ">> \o ProceedQuestion
    ELSE IF operation = LIST
    THEN <<"I'll list all ">> \o type_name \o <<" resources. ">>
            \o ProceedQuestion
    ELSE IF operation = UPDATE
    THEN <<"I'll update the ">> \o type_name
            \o <<" resource with identifier '">> \o identifier
            \o <<"' with the following changes: ">>
            \o ChangesStr(GetOr(resource_config, "patch_document", <<>>))
            \o <<". ">> \o ProceedQuestion
    ELSE IF operation = DELETE
    THEN <<"I'll delete the ">> \o type_name
            \o <<" resource with identifier '">> \o identifier
            \o <<"'. ">> \o ProceedQuestion
    ELSE FallbackResponse

\* The message for a result whose operation_status is FAILED.
FailedResponse(resource_config, res) ==
    <<"The ">> \o Str(Get(resource_config, "operation"))
        \o <<" operation for ">> \o Str(Get(resource_config, "type_name"))
        \o <<" failed with error code '">>
        \o Str(GetOr(res, "error_code", <<"Unknown">>)) \o <<"'. ">>
        \o Str(GetOr(res, "status_message",
                     <<"No additional information available">>))

\* The operation-specific branches for a result that is not FAILED.
OperationResponse(resource_config, res) ==
    LET operation     == Get(resource_config, "operation")
        type_name     == Str(Get(resource_config, "type_name"))
        request_token == Str(GetOr(res, "request_token", <<>>))
        identifier    == Get(res, "identifier")
        Polling       == <<" You can check the status using the request token: ">>
                            \o request_token
    IN
    IF operation = CREATE
    THEN IF Truthy(identifier)
         THEN <<"I've started creating a new ">> \o type_name
                \o <<" resource with identifier '">> \o identifier
                \o <<"'.">> \o Polling
         ELSE <<"I've started creating a new ">> \o type_name
                \o <<" resource.">> \o Polling
    ELSE IF operation = GET
    THEN <<"Here are the details of the ">> \o type_name
            \o <<" resource:\n">>
            \o JsonDumps(GetOr(res, "properties", <<>>))
    ELSE IF operation = LIST
    THEN LET resources == GetOr(res, "resources", <<>>) IN
         IF resources = <<>>
         THEN <<"No ">> \o type_name \o <<" resources found.">>
         ELSE <<"I found ">> \o IntStr(Len(resources)) \o <<" ">>
                \o type_name \o <<" resources:\n">>
                \o ResourcesStr(resources)
    ELSE IF operation = UPDATE
    THEN <<"I've started updating the ">> \o type_name
            \o <<" resource with identifier '">> \o Str(identifier)
            \o <<"'.">> \o Polling
    ELSE IF operation = DELETE
    THEN <<"I've started deleting the ">> \o type_name
            \o <<" resource with identifier '">> \o Str(identifier)
            \o <<"'.">> \o Polling
    ELSE FallbackResponse

\* The optional result argument is a sequence: <<>> for None, <<d>> for
\* the dict d.  "not result": None and the empty dict are falsy.
NoResult(res) == res = <<>> \/ DOMAIN res[1] = {}

\* LLMInterface.generate_response (operation-aware variant), with two
\* reorderings of its tests that the properties on the order of the tests
\* tell apart from it: generate_response_operation_first reaches the FAILED
\* test only when no operation branch applies, generate_response_result_first
\* looks at the result before the error field.
generate_response_operation_first(resource_config, res) ==
    IF "error" \in DOMAIN resource_config
    THEN ErrorResponse(resource_config)
    ELSE IF NoResult(res)
    THEN PreviewResponse(resource_config)
    ELSE IF Get(resource_config, "operation") \in { CREATE, GET, LIST, UPDATE, DELETE }
    THEN OperationResponse(resource_config, res[1])
    ELSE IF Get(res[1], "operation_status") = <<"FAILED">>
    THEN FailedResponse(resource_config, res[1])
    ELSE FallbackResponse

generate_response_result_first(resource_config, res) ==
    IF ~NoResult(res) /\ Get(res[1], "operation_status") = <<"FAILED">>
    THEN FailedResponse(resource_config, res[1])
    ELSE IF "error" \in DOMAIN resource_config
    THEN ErrorResponse(resource_config)
    ELSE IF NoResult(res)
    THEN PreviewResponse(resource_config)
    ELSE OperationResponse(resource_config, res[1])

\* generate_response_done_only describes only results that are over:
\* an IN_PROGRESS result falls through to the fallback.
generate_response_done_only(resource_config, res) ==
    IF "error" \in DOMAIN resource_config
    THEN ErrorResponse(resource_config)
    ELSE IF NoResult(res)
    THEN PreviewResponse(resource_config)
    ELSE IF Get(res[1], "operation_status") = <<"FAILED">>
    THEN FailedResponse(resource_config, res[1])
    ELSE IF Get(res[1], "operation_status") = <<"SUCCESS">>
    THEN OperationResponse(resource_config, res[1])
    ELSE FallbackResponse

generate_response(resource_config, res) ==
    IF "error" \in DOMAIN resource_config
    THEN ErrorResponse(resource_config)
    ELSE IF NoResult(res)
    THEN PreviewResponse(resource_config)
    ELSE IF Get(res[1], "operation_status") = <<"FAILED">>
    THEN FailedResponse(resource_config, res[1])
    ELSE OperationResponse(resource_config, res[1])

-----------------------------------------------------------------------------
(* The schema store of the schema-aware variant                            *)
(* (src/mcp-ccapi/app/schema_manager.py).  A store is a record: schemas,   *)
(* the type names in the in-memory cache SchemaManager.schemas, and files, *)
(* the type names with a schema file in the schema directory.  The content *)
(* of a type's schema is fixed: SchemaOf.                                   *)

\* Property names of the schemas used here.
BucketName == <<"BucketName">>

TableName == <<"TableName">>

KeySchema == <<"KeySchema">>

VersioningConfiguration == <<"VersioningConfiguration">>

FunctionName == <<"FunctionName">>

Role == <<"Role">>

Code == <<"Code">>

ImageId == <<"ImageId">>

SubnetId == <<"SubnetId">>

\* The schema documents: definitions is an ordered dict name -> definition,
\* primaryIdentifier a list of paths.
SchemaOf(type_name) ==
    IF type_name = S3Bucket
    THEN [ definitions |->
               << <<"BucketProperties",
                    [ properties |-> <<BucketName, VersioningConfiguration>>,
                      required   |-> <<>> ]>> >>,
           primaryIdentifier |-> << <<"/", "properties", "/", "BucketName">> >> ]
    ELSE IF type_name = DynamoDBTable
    THEN [ definitions |->
               << <<"KeySchema",
                    [ properties |-> << <<"AttributeName">> >>,
                      required   |-> << <<"AttributeName">> >> ]>>,
                  <<"TableProperties",
                    [ properties |-> <<TableName, KeySchema>>,
                      required   |-> <<KeySchema, TableName>> ]>> >>,
           primaryIdentifier |-> <<>> ]
    ELSE IF type_name = LambdaFunction
    THEN [ definitions |->
               << <<"FunctionProperties",
                    [ properties |-> <<FunctionName, Role, Code>>,
                      required   |-> <<Code, Role>> ]>> >>,
           primaryIdentifier |-> << <<"/", "properties", "/", "FunctionName">> >> ]
    ELSE IF type_name = EC2Instance
    THEN [ definitions |->
               << <<"InstanceProperties",
                    [ properties |-> <<ImageId>>,
                      required   |-> <<ImageId, SubnetId>> ]>> >>,
           primaryIdentifier |-> <<>> ]
    ELSE [ definitions |-> <<>>, primaryIdentifier |-> <<>> ]

\* prop_schema.get('type') of the property schemas of these documents.
PropertyTypeOf(prop_name) ==
    IF prop_name \in { VersioningConfiguration, Code } THEN "object"
    ELSE IF prop_name = KeySchema THEN "array"
    ELSE "string"

\* key.endswith('Properties') for the definition names used here.
EndsWithProperties(key) ==
    key \in { "BucketProperties", "TableProperties", "FunctionProperties",
              "InstanceProperties" }

\* What cfn_client.describe_type does in one call: it returns a schema, it
\* returns a response without a Schema, or it raises.
RegistryOutcomes == { "schema", "empty", "raise" }

\* SchemaManager.download_schema: [ok, store].  A file that is present is
\* reported as success without being loaded into the cache.
download_schema(store, type_name, outcome) ==
    IF type_name \in store.files
    THEN [ ok |-> TRUE, store |-> store ]
    ELSE IF outcome = "schema"
    THEN [ ok    |-> TRUE,
           store |-> [ schemas |-> store.schemas \cup { type_name },
                       files   |-> store.files \cup { type_name } ] ]
    ELSE [ ok |-> FALSE, store |-> store ]

\* SchemaManager.get_schema: [found, raised, store].  found: the schema
\* SchemaOf(type_name) is returned; raised: self.schemas[type_name] raised
\* KeyError after download_schema reported success; neither: None.
get_schema(store, type_name, outcome) ==
    IF type_name \in store.schemas
    THEN [ found |-> TRUE, raised |-> FALSE, store |-> store ]
    ELSE LET d == download_schema(store, type_name, outcome) IN
         IF d.ok
         THEN [ found  |-> type_name \in d.store.schemas,
                raised |-> type_name \notin d.store.schemas,
                store  |-> d.store ]
         ELSE [ found |-> FALSE, raised |-> FALSE, store |-> store ]

\* The first definition whose name ends with 'Properties', as an index into
\* definitions; 0 when there is none.
PropertiesDefinition(schema) ==
    LET defs == schema.definitions IN
    IF \E i \in 1..Len(defs) : EndsWithProperties(defs[i][1])
    THEN CHOOSE i \in 1..Len(defs) :
            /\ EndsWithProperties(defs[i][1])
            /\ \A j \in 1..(i - 1) : ~EndsWithProperties(defs[j][1])
    ELSE 0

\* The list get_required_properties returns for a schema that was found.
RequiredOf(schema) ==
    IF PropertiesDefinition(schema) = 0 THEN <<>>
    ELSE schema.definitions[PropertiesDefinition(schema)][2].required

\* The keys of the dict get_property_types returns for a schema that was
\* found.
PropertyNamesOf(schema) ==
    IF PropertiesDefinition(schema) = 0 THEN <<>>
    ELSE schema.definitions[PropertiesDefinition(schema)][2].properties

\* The fallback table of get_resource_identifier_property.
CommonIdentifier(type_name) ==
    IF type_name = S3Bucket THEN BucketName
    ELSE IF type_name = DynamoDBTable THEN TableName
    ELSE IF type_name = LambdaFunction THEN <<"FunctionName">>
    ELSE IF type_name = EC2Instance THEN <<"InstanceId">>
    ELSE None

\* re.search(r'/properties/(\w+)', identifier_path).group(1), None without a
\* match.
PathProperty(path) ==
    IF \E i \in 1..Len(path) :
          /\ i + 3 <= Len(path)
          /\ SubSeq(path, i, i + 2) = <<"/", "properties", "/">>
    THEN LET i == CHOOSE j \in 1..Len(path) :
                    /\ j + 3 <= Len(path)
                    /\ SubSeq(path, j, j + 2) = <<"/", "properties", "/">>
                    /\ \A k \in 1..(j - 1) :
                          SubSeq(path, k, k + 2) # <<"/", "properties", "/">>
         IN <<path[i + 3]>>
    ELSE None

\* The value get_resource_identifier_property returns for a schema that was
\* found.
IdentifierPropertyOf(type_name, schema) ==
    IF schema.primaryIdentifier # <<>>
       /\ PathProperty(schema.primaryIdentifier[1]) # None
    THEN PathProperty(schema.primaryIdentifier[1])
    ELSE CommonIdentifier(type_name)

\* The first missing property only.
MissingPropsFirst(required_props, params) ==
    LET missing == SelectSeq(required_props, LAMBDA prop : prop \notin Keys(params))
    IN IF missing = <<>> THEN <<>> ELSE << Head(missing) >>

\* [prop for prop in required_props if prop not in params]
RECURSIVE MissingProps(_, _)
MissingProps(required_props, params) ==
    IF required_props = <<>> THEN <<>>
    ELSE (IF Head(required_props) \in Keys(params) THEN <<>>
          ELSE <<Head(required_props)>>)
         \o MissingProps(Tail(required_props), params)

\* The message with the first name only.
MissingPropsErrorFirst(missing_props) ==
    <<"Missing required properties: ">> \o Head(missing_props)

MissingPropsError(missing_props) ==
    <<"Missing required properties: ">> \o Join(<<", ">>, missing_props)

NoSchemaError(type_name) == <<"No schema found for ">> \o Str(type_name)

\* The outcome of a handler that raised: no value is returned.
Raised == <<"#raised">>

\* LLMInterface.generate_resource_config (schema-aware variant):
\* [store, config], config = [raised |-> TRUE] when the call raised.
\* outcomes[n] is what the registry does if the n-th get_schema of the call
\* reaches it: get_required_properties, then validate_resource_config and
\* the get_required_properties inside it.
ccapi_generate_resource_config(store, parsed_request, outcomes) ==
    IF "error" \in DOMAIN parsed_request
    THEN [ store |-> store, config |-> [ error |-> parsed_request.error ] ]
    ELSE
    LET resource_type == parsed_request.resource_type
        params        == parsed_request.params
        g1 == get_schema(store, resource_type, outcomes[1])
        required1 == IF g1.found THEN RequiredOf(SchemaOf(resource_type))
                     ELSE <<>>
        g2 == get_schema(g1.store, resource_type, outcomes[2])
        g3 == get_schema(g2.store, resource_type, outcomes[3])
        required3 == IF g3.found THEN RequiredOf(SchemaOf(resource_type))
                     ELSE <<>>
    IN
    IF g1.raised
    THEN [ store |-> g1.store, config |-> [ raised |-> TRUE ] ]
    ELSE IF MissingProps(required1, params) # <<>>
    THEN [ store  |-> g1.store,
           config |-> [ error |->
                          MissingPropsError(MissingProps(required1, params)) ] ]
    ELSE IF g2.raised
    THEN [ store |-> g2.store, config |-> [ raised |-> TRUE ] ]
    ELSE IF ~g2.found
    THEN [ store  |-> g2.store,
           config |-> [ error |-> NoSchemaError(resource_type) ] ]
    ELSE IF g3.raised
    THEN [ store |-> g3.store, config |-> [ raised |-> TRUE ] ]
    ELSE IF MissingProps(required3, params) # <<>>
    THEN [ store  |-> g3.store,
           config |-> [ error |->
                          MissingPropsError(MissingProps(required3, params)) ] ]
    ELSE [ store  |-> g3.store,
           config |-> [ type_name |-> resource_type, desired_state |-> params ] ]

\* The closing question of the schema-aware preview.
CcapiProceedQuestion ==
    <<"Would you like me to proceed with creating this resource?">>

\* The lines "- name: value" of the preview.  PropertiesDescriptionAll lists
\* the identifier property like any other.
RECURSIVE PropertiesDescriptionAll(_, _)
PropertiesDescriptionAll(desired_state, identifier_prop) ==
    IF desired_state = <<>> THEN <<>>
    ELSE << <<"- ">> \o Head(desired_state)[1] \o <<": ">>
                \o Str(Head(desired_state)[2]) >>
         \o PropertiesDescriptionAll(Tail(desired_state), identifier_prop)

RECURSIVE PropertiesDescription(_, _)
PropertiesDescription(desired_state, identifier_prop) ==
    IF desired_state = <<>> THEN <<>>
    ELSE (IF Head(desired_state)[1] = identifier_prop THEN <<>>
          ELSE << <<"- ">> \o Head(desired_state)[1] \o <<": ">>
                     \o Str(Head(desired_state)[2]) >>)
         \o PropertiesDescription(Tail(desired_state), identifier_prop)

\* The preview of the schema-aware variant, given the identifier property
\* the schema manager named (None when it named none).
CcapiPreviewResponse(resource_config, identifier_prop) ==
    LET resource_type == Str(Get(resource_config, "type_name"))
        desired_state == GetOr(resource_config, "desired_state", <<>>)
        identifier_value ==
            IF identifier_prop # None /\ identifier_prop \in Keys(desired_state)
            THEN Str(Lookup(desired_state, identifier_prop))
            ELSE <<"unknown">>
    IN <<"I'll create a ">> \o resource_type
        \o <<" resource with identifier '">> \o identifier_value
        \o <<"' and the following configuration:\n">>
        \o Join(<<"\n">>, PropertiesDescription(desired_state, identifier_prop))
        \o <<"\n\n">> \o CcapiProceedQuestion

\* The branches of the schema-aware variant for a result that is present.
CcapiResultResponse(resource_config, res) ==
    LET resource_type == Str(Get(resource_config, "type_name"))
        operation     == Str(GetOr(res, "operation", CREATE))
        status        == Str(GetOr(res, "operation_status", <<>>))
        identifier    == Str(GetOr(res, "identifier", <<>>))
    IN
    IF status = <<"IN_PROGRESS">>
    THEN <<"I've started the ">> \o operation \o <<" operation for the ">>
            \o resource_type \o <<" resource.\n- Resource identifier: ">>
            \o identifier \o <<"\n- Current status: ">> \o status
            \o <<"\n- Request token: ">>
            \o Str(GetOr(res, "request_token", <<>>))
            \o <<"\n\nYou can check the status of this request later using the request token.">>
    ELSE IF status = <<"SUCCESS">>
    THEN <<"The ">> \o operation \o <<" operation for the ">>
            \o resource_type
            \o <<" resource was successful!\n- Resource identifier: ">>
            \o identifier \o <<"\n- Status: ">> \o status
    ELSE IF status = <<"FAILED">>
    THEN <<"The ">> \o operation \o <<" operation for the ">>
            \o resource_type \o <<" resource failed.\n- Resource identifier: ">>
            \o identifier \o <<"\n- Error code: ">>
            \o Str(GetOr(res, "error_code", <<>>))
            \o <<"\n- Error message: ">>
            \o Str(GetOr(res, "status_message", <<>>))
    ELSE <<"The ">> \o operation \o <<" operation for the ">>
            \o resource_type \o <<" resource is in state: ">> \o status

\* The message of the schema-aware variant for a configuration that carries
\* an error.
CcapiErrorResponse(resource_config) ==
    <<"I couldn't create the resource: ">> \o Str(resource_config.error)

\* LLMInterface.generate_response (schema-aware variant): [store, text],
\* text = Raised when the call raised.  Only the preview asks the schema
\* manager (get_resource_identifier_property); outcome is what the registry
\* does if that call reaches it.
ccapi_generate_response(store, resource_config, res, outcome) ==
    IF "error" \in DOMAIN resource_config
    THEN [ store |-> store, text |-> CcapiErrorResponse(resource_config) ]
    ELSE IF NoResult(res)
    THEN LET type_name == Get(resource_config, "type_name")
             g == get_schema(store, type_name, outcome)
             identifier_prop ==
                 IF g.found THEN IdentifierPropertyOf(type_name, SchemaOf(type_name))
                 ELSE None
         IN IF g.raised
            THEN [ store |-> g.store, text |-> Raised ]
            ELSE [ store |-> g.store,
                   text  |-> CcapiPreviewResponse(resource_config, identifier_prop) ]
    ELSE [ store |-> store, text |-> CcapiResultResponse(resource_config, res[1]) ]

-----------------------------------------------------------------------------
(* parse_request of the schema-aware variant                               *)
(* (src/mcp-ccapi/app/llm_interface.py:21-199), on texts whose delimiters  *)
(* are ": ", ": '" (colon, blank, opening quote), "' " (closing quote,     *)
(* blank) and "::", and which hold none of the key and capacity phrases of *)
(* lines 133-194.                                                          *)

\* The words w such that lexeme l ends with w: the patterns carry no \b, so
\* a keyword may match the end of a longer word.
Suffixes(l) ==
    { l } \cup (IF l = "recreate" THEN { "create" }
                ELSE IF l \in { "bucketname", "tablename" } THEN { "name" }
                ELSE IF l \in { "BucketName", "TableName" } THEN { "Name" }
                ELSE {})

\* The words that begin with w.
Prefixed(w) == { w } \cup (IF w = "bucket" THEN { "buckets" } ELSE {})

\* resource_type_mapping and the common names of the type regex, in its
\* order; 'AWS::\w+::\w+' is searched in the lower-cased text and matches
\* nothing.
CommonNames ==
    << << <<"s3", "bucket">>, S3Bucket >>,
       << <<"dynamodb", "table">>, DynamoDBTable >>,
       << <<"lambda", "function">>, LambdaFunction >>,
       << <<"ec2", "instance">>, EC2Instance >> >>

\* The type of the common name that begins at lexeme k of the lower-cased
\* text, None when none does.
CommonNameAt(low, k) ==
    LET hit(n) == /\ k + 1 <= Len(low)
                  /\ low[k] = CommonNames[n][1][1]
                  /\ low[k + 1] \in Prefixed(CommonNames[n][1][2])
    IN IF \E n \in 1..Len(CommonNames) : hit(n)
       THEN CommonNames[CHOOSE n \in 1..Len(CommonNames) : hit(n)][2]
       ELSE None

\* The type r'create (?:an? )?(...)' matches with its create at lexeme i.
CreateTypeAt(low, i) ==
    IF ~("create" \in Suffixes(low[i])) \/ i + 1 > Len(low) THEN None
    ELSE IF low[i + 1] \in { "a", "an" } /\ CommonNameAt(low, i + 2) # None
    THEN CommonNameAt(low, i + 2)
    ELSE CommonNameAt(low, i + 1)

\* re.search of the type regex on request_text.lower(), mapped by
\* resource_type_mapping: the type of the leftmost match, None without one.
CcapiResourceType(t) ==
    LET low == Lower(t) IN
    IF \E i \in 1..Len(low) : CreateTypeAt(low, i) # None
    THEN CreateTypeAt(low, CHOOSE i \in 1..Len(low) :
                              /\ CreateTypeAt(low, i) # None
                              /\ \A j \in 1..(i - 1) : CreateTypeAt(low, j) = None)
    ELSE None

\* " ".join(re.findall("[A-Z][^A-Z]*", prop_name)).lower(), as words.
SpacedLower(prop_name) ==
    IF prop_name = BucketName THEN <<"bucket", "name">>
    ELSE IF prop_name = TableName THEN <<"table", "name">>
    ELSE IF prop_name = KeySchema THEN <<"key", "schema">>
    ELSE IF prop_name = VersioningConfiguration
    THEN <<"versioning", "configuration">>
    ELSE IF prop_name = FunctionName THEN <<"function", "name">>
    ELSE IF prop_name = ImageId THEN <<"image", "id">>
    ELSE Lower(prop_name)

\* Whether key, a sequence of words, matches ending at lexeme e of t: its
\* first word may be the end of a longer word.
KeyEndsAt(t, key, e) ==
    LET b == e - Len(key) + 1 IN
    /\ b >= 1
    /\ key[1] \in Suffixes(t[b])
    /\ \A n \in 2..Len(key) : t[b + n - 1] = key[n]

\* group(1) of key[:\s]+["\']([\w.-]+)["\'] (quoted) or of key[:\s]+(\w+)
\* with the key ending at lexeme e; None when it does not match there.
ValueAfter(t, e, quoted) ==
    IF quoted
    THEN IF e + 3 <= Len(t) /\ t[e + 1] = ": '" /\ IsWord(t[e + 2])
            /\ t[e + 3] = "' "
         THEN <<t[e + 2]>> ELSE None
    ELSE IF e + 1 <= Len(t) /\ IsWord(t[e + 1]) THEN <<t[e + 1]>>
    ELSE IF e + 2 <= Len(t) /\ t[e + 1] = ": " /\ IsWord(t[e + 2])
    THEN <<t[e + 2]>>
    ELSE None

\* re.search of one pattern on request_text, the key being any of keys:
\* group(1) of the leftmost match, None without one.
SearchValue(t, keys, quoted) ==
    LET hit(e) == /\ \E key \in keys : KeyEndsAt(t, key, e)
                  /\ ValueAfter(t, e, quoted) # None
    IN IF \E e \in 1..Len(t) : hit(e)
       THEN ValueAfter(t, CHOOSE e \in 1..Len(t) :
                             hit(e) /\ \A f \in 1..(e - 1) : ~hit(f),
                       quoted)
       ELSE None

\* The six patterns of one property, in order; the first that matches gives
\* the value.
PropertyValue(t, prop_name) ==
    LET keys == << prop_name, Lower(prop_name), SpacedLower(prop_name) >>
        v(n) == SearchValue(t, { keys[(n + 1) \div 2] }, n % 2 = 1)
    IN IF \E n \in 1..6 : v(n) # None
       THEN v(CHOOSE n \in 1..6 : v(n) # None /\ \A m \in 1..(n - 1) : v(m) = None)
       ELSE None

\* The loop over property_types.keys().
RECURSIVE GenericParams(_, _)
GenericParams(t, prop_names) ==
    IF prop_names = <<>> THEN <<>>
    ELSE (IF PropertyValue(t, Head(prop_names)) # None
          THEN << <<Head(prop_names), PropertyValue(t, Head(prop_names))>> >>
          ELSE <<>>)
         \o GenericParams(t, Tail(prop_names))

\* The special handling of a bucket's or a table's name.
NameFallback(t, resource_type, params) ==
    LET prop == IF resource_type = S3Bucket THEN BucketName ELSE TableName
        kw   == IF resource_type = S3Bucket THEN <<"bucket">> ELSE <<"table">>
        v    == SearchValue(t, { kw, <<"name">> }, TRUE)
    IN IF resource_type \in { S3Bucket, DynamoDBTable }
          /\ prop \notin Keys(params) /\ v # None
       THEN SetItem(params, prop, v)
       ELSE params

\* group(1) of key[:\s]+(v1|v2|...) searched in the lower-cased text low:
\* the value of the leftmost match, None without one.  No word of the texts
\* begins with one of the values and goes on.
FlagValue(low, key, values) ==
    LET hit(e) == /\ KeyEndsAt(low, key, e)
                  /\ ValueAfter(low, e, FALSE) # None
                  /\ ValueAfter(low, e, FALSE)[1] \in values
    IN IF \E e \in 1..Len(low) : hit(e)
       THEN ValueAfter(low, CHOOSE e \in 1..Len(low) :
                               hit(e) /\ \A f \in 1..(e - 1) : ~hit(f),
                       FALSE)
       ELSE None

PublicAccessBlockConfiguration == <<"PublicAccessBlockConfiguration">>
BucketEncryption == <<"BucketEncryption">>

\* The dict values the bucket phrases stand for, each one lexeme: its repr.
StatusEnabled == <<"{'Status': 'Enabled'}">>
StatusSuspended == <<"{'Status': 'Suspended'}">>
AllBlocked ==
    <<"{'BlockPublicAcls': True, 'BlockPublicPolicy': True, 'IgnorePublicAcls': True, 'RestrictPublicBuckets': True}">>
AES256Encryption ==
    <<"{'ServerSideEncryptionConfiguration': [{'ServerSideEncryptionByDefault': {'SSEAlgorithm': 'AES256'}}]}">>

\* The versioning, public access and encryption phrases of a bucket
\* (lines 90-124), with a variant that looks for them in the text as given.
BucketFlagsIn(t, params) ==
    LET versioning == FlagValue(t, <<"versioning">>,
                                { "enabled", "disabled", "true", "false" })
        public_access == FlagValue(t, <<"public", "access">>,
                                   { "blocked", "allowed", "true", "false" })
        encryption == FlagValue(t, <<"encryption">>,
                                { "enabled", "disabled", "true", "false" })
        p1 == IF versioning = None THEN params
              ELSE SetItem(params, VersioningConfiguration,
                           IF versioning[1] \in { "enabled", "true" }
                           THEN StatusEnabled ELSE StatusSuspended)
        p2 == IF public_access # None /\ public_access[1] \in { "blocked", "true" }
              THEN SetItem(p1, PublicAccessBlockConfiguration, AllBlocked)
              ELSE p1
    IN IF encryption # None /\ encryption[1] \in { "enabled", "true" }
       THEN SetItem(p2, BucketEncryption, AES256Encryption)
       ELSE p2

BucketFlagsAsGiven(t, resource_type, params) ==
    IF resource_type = S3Bucket THEN BucketFlagsIn(t, params) ELSE params

BucketFlags(t, resource_type, params) ==
    IF resource_type = S3Bucket THEN BucketFlagsIn(Lower(t), params) ELSE params

SchemaNotFoundError(resource_type) ==
    <<"Could not find schema for resource type: ">> \o resource_type

\* LLMInterface.parse_request: [store, request], request = [raised |-> TRUE]
\* when the call raised.  outcomes[1] is what the registry does if get_schema
\* reaches it, outcomes[2] if the download_schema after it does.
ccapi_parse_request(store, t, outcomes) ==
    LET resource_type == CcapiResourceType(t)
        g == get_schema(store, resource_type, outcomes[1])
        d == download_schema(g.store, resource_type, outcomes[2])
        params == GenericParams(t, PropertyNamesOf(SchemaOf(resource_type)))
    IN
    IF resource_type = None
    THEN [ store   |-> store,
           request |-> [ error |->
                          <<"Could not determine the resource type to create">> ] ]
    ELSE IF g.raised
    THEN [ store |-> g.store, request |-> [ raised |-> TRUE ] ]
    ELSE IF ~g.found /\ ~d.ok
    THEN [ store   |-> d.store,
           request |-> [ error |-> SchemaNotFoundError(resource_type) ] ]
    ELSE [ store   |-> IF g.found THEN g.store ELSE d.store,
           request |-> [ resource_type |-> resource_type,
                         params |->
                           BucketFlags(t, resource_type,
                                       NameFallback(t, resource_type, params)) ] ]

-----------------------------------------------------------------------------
(* Direct calls of the schema manager of the schema-aware variant.  A     *)
(* Python list is a sequence; [] and {} as values are the lexemes "[]"    *)
(* and "{}".                                                               *)

\* "x in xs" for a list.
InList(x, xs) == \E i \in 1..Len(xs) : xs[i] = x

\* SchemaManager._generate_default_value, from the property's type.
DefaultValue(prop_type) ==
    IF prop_type = "string" THEN <<>>
    ELSE IF prop_type \in { "integer", "number" } THEN <<"0">>
    ELSE IF prop_type = "boolean" THEN <<"False">>
    ELSE IF prop_type = "array" THEN <<"[]">>
    ELSE IF prop_type = "object" THEN <<"{}">>
    ELSE None

\* SchemaManager.validate_resource_config: [store, raised, valid, errors].
\* outcomes[n] is what the registry does if the n-th get_schema of the call
\* reaches it (the second one is inside get_required_properties).
validate_resource_config(store, type_name, cfg, outcomes) ==
    LET g1 == get_schema(store, type_name, outcomes[1])
        g2 == get_schema(g1.store, type_name, outcomes[2])
        required_props == IF g2.found THEN RequiredOf(SchemaOf(type_name))
                          ELSE <<>>
        missing_props == MissingProps(required_props, cfg)
    IN
    IF g1.raised
    THEN [ store |-> g1.store, raised |-> TRUE, valid |-> FALSE, errors |-> <<>> ]
    ELSE IF ~g1.found
    THEN [ store |-> g1.store, raised |-> FALSE, valid |-> FALSE,
           errors |-> << NoSchemaError(type_name) >> ]
    ELSE IF g2.raised
    THEN [ store |-> g2.store, raised |-> TRUE, valid |-> FALSE, errors |-> <<>> ]
    ELSE IF missing_props # <<>>
    THEN [ store |-> g2.store, raised |-> FALSE, valid |-> FALSE,
           errors |-> << MissingPropsError(missing_props) >> ]
    ELSE [ store |-> g2.store, raised |-> FALSE, valid |-> TRUE, errors |-> <<>> ]

\* The same method with every property kept, whatever include_optional.
generate_resource_template_all(store, type_name, include_optional, outcome) ==
    LET g == get_schema(store, type_name, outcome)
        kept == PropertyNamesOf(SchemaOf(type_name))
    IN [ store    |-> g.store,
         raised   |-> g.raised,
         template |-> IF g.found
                      THEN [ i \in 1..Len(kept) |->
                               <<kept[i], DefaultValue(PropertyTypeOf(kept[i]))>> ]
                      ELSE <<>> ]

\* SchemaManager.generate_resource_template: [store, raised, template], the
\* template an ordered dict.  Once the first get_schema has found the schema
\* it is cached and get_property_types and get_required_properties find it.
generate_resource_template(store, type_name, include_optional, outcome) ==
    LET g == get_schema(store, type_name, outcome)
        property_types == PropertyNamesOf(SchemaOf(type_name))
        required_props == RequiredOf(SchemaOf(type_name))
        kept == SelectSeq(property_types,
                          LAMBDA prop_name :
                              InList(prop_name, required_props) \/ include_optional)
    IN [ store    |-> g.store,
         raised   |-> g.raised,
         template |-> IF g.found
                      THEN [ i \in 1..Len(kept) |->
                               <<kept[i], DefaultValue(PropertyTypeOf(kept[i]))>> ]
                      ELSE <<>> ]

-----------------------------------------------------------------------------
(* The schema manager of the operation-aware variant                       *)
(* (src/app/schema_manager.py).  It keeps no cache: schemas are the types  *)
(* whose file loads, files the types with a file.  The Properties object   *)
(* of a type's document holds the properties and the required list of      *)
(* SchemaOf's properties definition.                                       *)

\* SchemaManager._generate_property_value for a property schema that holds
\* its type only.
PropertyValueOf(prop_type) ==
    IF prop_type = "string" THEN <<"example", "-", "value">>
    ELSE IF prop_type \in { "integer", "number" } THEN <<"0">>
    ELSE IF prop_type = "boolean" THEN <<"False">>
    ELSE IF prop_type = "array" THEN <<"[]">>
    ELSE IF prop_type = "object" THEN <<"{}">>
    ELSE None

\* SchemaManager.get_schema, then download_schema when it found nothing:
\* [found, store].  download_schema asks the registry whether or not a file
\* exists and writes the file.
app_obtain_schema(store, type_name, outcome) ==
    IF type_name \in store.schemas THEN [ found |-> TRUE, store |-> store ]
    ELSE IF outcome = "schema"
    THEN [ found |-> TRUE,
           store |-> [ schemas |-> store.schemas \cup { type_name },
                       files   |-> store.files \cup { type_name } ] ]
    ELSE [ found |-> FALSE, store |-> store ]

\* SchemaManager.generate_resource_template: [store, found, template], the
\* template None when no schema was obtained (found is FALSE).
app_generate_resource_template(store, type_name, include_optional, outcome) ==
    LET g == app_obtain_schema(store, type_name, outcome)
        properties_schema == PropertyNamesOf(SchemaOf(type_name))
        required_props == RequiredOf(SchemaOf(type_name))
        kept == SelectSeq(properties_schema,
                          LAMBDA prop_name :
                              include_optional \/ InList(prop_name, required_props))
    IN [ store    |-> g.store,
         found    |-> g.found,
         template |-> IF g.found
                      THEN [ i \in 1..Len(kept) |->
                               <<kept[i], PropertyValueOf(PropertyTypeOf(kept[i]))>> ]
                      ELSE None ]

\* The violations jsonschema finds in config against the Properties object
\* of the type's document, as str(ValidationError): the message line, then
\* the dump of schema and instance, which is one lexeme here.  The values of
\* a config are strs, so a property of another type is violated.
JsonSchemaErrors(type_name, cfg) ==
    LET required == RequiredOf(SchemaOf(type_name))
        names == PropertyNamesOf(SchemaOf(type_name))
        dump == "\n\nFailed validating ... On instance ..."
    IN { <<"'">> \o required[i] \o <<"' is a required property", dump>> :
            i \in { j \in 1..Len(required) : required[j] \notin Keys(cfg) } }
       \cup { <<"'">> \o cfg[i][2] \o <<"' is not of type '",
                PropertyTypeOf(cfg[i][1]), "'", dump>> :
                i \in { j \in 1..Len(cfg) :
                          /\ InList(cfg[j][1], names)
                          /\ PropertyTypeOf(cfg[j][1]) # "string" } }

\* SchemaManager.validate_resource_config: [store, valid, errors].
\* jsonschema.validate raises one of the violations; which is the
\* library's choice, error here.
app_validate_resource_config(store, type_name, cfg, outcome, error) ==
    LET g == app_obtain_schema(store, type_name, outcome) IN
    IF ~g.found
    THEN [ store |-> g.store, valid |-> FALSE,
           errors |-> << <<"Schema not found for resource type: ">> \o type_name >> ]
    ELSE IF JsonSchemaErrors(type_name, cfg) = {}
    THEN [ store |-> g.store, valid |-> TRUE, errors |-> <<>> ]
    ELSE [ store |-> g.store, valid |-> FALSE, errors |-> << error >> ]

\* The methods the class SchemaManager of src/app/schema_manager.py defines.
SchemaManagerMethods ==
    { "get_schema_path", "get_schema", "download_schema",
      "download_common_schemas", "download_all_schemas",
      "list_available_resource_types", "search_resource_types",
      "validate_resource_config", "generate_resource_template",
      "_is_required_property", "_generate_property_value" }

\* LLMInterface.process_validation_request: [store, ret], ret the returned
\* tuple.  attached: self.schema_manager is set.  The template is asked for
\* as self.schema_manager.generate_template; looking up a method the class
\* does not define raises AttributeError, which the except clause swallows.
process_validation_request(store, t, attached, outcome) ==
    LET parsed_request == parse_validation_request(t)
        resource_type == parsed_request.resource_type
        properties == parsed_request.properties
        asked == properties = <<>> /\ attached
        defined == "generate_template" \in SchemaManagerMethods
        r == app_generate_resource_template(store, resource_type, TRUE, outcome)
    IN
    IF ~Truthy(resource_type)
    THEN [ store |-> store, ret |-> <<VALIDATE, None, None>> ]
    ELSE IF asked /\ defined
    THEN [ store |-> r.store,
           ret   |-> <<VALIDATE, resource_type,
                       IF r.found /\ r.template # <<>> THEN r.template
                       ELSE properties>> ]
    ELSE [ store |-> store, ret |-> <<VALIDATE, resource_type, properties>> ]

-----------------------------------------------------------------------------
(* The endpoint POST /llm/resources (src/app/main.py:383-576).             *)

\* What the Cloud Control client does in the one call of a request: it
\* raises (message is str(e)), it answers without the optional parts (no ProgressEvent, no
\* Properties, no ResourceDescriptions), or it answers in full with the given
\* OperationStatus.
BackendAnswers ==
    { [ kind |-> "raise", message |-> <<"backend error">> ],
      [ kind |-> "raise", message |-> <<"AccessDenied">> ],
      [ kind |-> "bare" ] }
    \cup { [ kind |-> "full", status |-> st ] :
             st \in { <<"IN_PROGRESS">>, <<"SUCCESS">>, <<"FAILED">> } }

\* The client method the handler calls for an operation.
BackendMethodCreate(operation) == "create_resource"

BackendMethod(operation) ==
    IF operation = CREATE THEN "create_resource"
    ELSE IF operation = GET THEN "get_resource"
    ELSE IF operation = LIST THEN "list_resources"
    ELSE IF operation = UPDATE THEN "update_resource"
    ELSE IF operation = DELETE THEN "delete_resource"
    ELSE "none"

\* The keyword arguments of that call.  ClientToken is a fresh uuid4 and is
\* left out.
BackendCall(resource_config, role_arn) ==
    LET operation == resource_config.operation
        method == BackendMethod(operation)
        base == IF operation = CREATE
                THEN [ method |-> method, TypeName |-> resource_config.type_name,
                       DesiredState |-> resource_config.desired_state ]
                ELSE IF operation = LIST
                THEN [ method |-> method, TypeName |-> resource_config.type_name ]
                ELSE IF operation = UPDATE
                THEN [ method |-> method, TypeName |-> resource_config.type_name,
                       Identifier |-> resource_config.identifier,
                       PatchDocument |-> resource_config.patch_document ]
                ELSE [ method |-> method, TypeName |-> resource_config.type_name,
                       Identifier |-> resource_config.identifier ]
    IN IF role_arn # None /\ operation \in { CREATE, UPDATE, DELETE }
       THEN [ k \in DOMAIN base \cup { "RoleArn" } |->
                IF k = "RoleArn" THEN role_arn ELSE base[k] ]
       ELSE base

\* The result the handler builds from the client's answer.
BackendResultUnknown(resource_config, answer) ==
    [ operation        |-> resource_config.operation,
      operation_status |-> <<"FAILED">>,
      type_name        |-> resource_config.type_name ]

BackendResult(resource_config, answer) ==
    LET operation == resource_config.operation
        full == answer.kind = "full"
    IN
    IF answer.kind = "raise"
    THEN [ operation        |-> operation,
           operation_status |-> <<"FAILED">>,
           type_name        |-> resource_config.type_name,
           error_code       |-> <<"ExecutionError">>,
           status_message   |-> answer.message ]
    ELSE IF operation = GET
    THEN [ operation  |-> GET,
           type_name  |-> resource_config.type_name,
           identifier |-> resource_config.identifier,
           properties |-> IF full THEN << <<BucketName, <<"foo">> >> >> ELSE <<>> ]
    ELSE IF operation = LIST
    THEN [ operation |-> LIST,
           type_name |-> resource_config.type_name,
           resources |-> IF full
                         THEN << [ identifier |-> <<"x1">>, properties |-> <<>> ] >>
                         ELSE <<>> ]
    ELSE [ request_token    |-> IF full THEN <<"tok">> ELSE <<>>,
           operation        |-> operation,
           operation_status |-> IF full THEN answer.status ELSE <<>>,
           type_name        |-> resource_config.type_name,
           identifier       |-> IF full THEN <<"x1">>
                                ELSE IF operation = CREATE THEN None
                                ELSE resource_config.identifier ]

\* process_natural_language_request: [reply, backend], reply the
\* NaturalLanguageResponse (result is <<>> for null), backend the client
\* calls made.  An operation outside the five raises ValueError before any
\* call and is reported like a failed call.
process_natural_language_request(t, execute, role_arn, answer) ==
    LET parsed_request == parse_request(t)
        resource_config == generate_resource_config(parsed_request)
        supported == BackendMethod(resource_config.operation) # "none"
        res == IF supported THEN BackendResult(resource_config, answer)
               ELSE BackendResult(resource_config,
                                  [ kind    |-> "raise",
                                    message |-> <<"Unsupported operation", ": ">>
                                                \o resource_config.operation ])
    IN
    IF "error" \in DOMAIN resource_config \/ ~execute
    THEN [ reply   |-> [ response        |-> generate_response(resource_config, <<>>),
                         resource_config |-> resource_config,
                         result          |-> <<>> ],
           backend |-> <<>> ]
    ELSE [ reply   |-> [ response        |-> generate_response(resource_config, <<res>>),
                         resource_config |-> resource_config,
                         result          |-> <<res>> ],
           backend |-> IF supported
                       THEN << BackendCall(resource_config, role_arn) >>
                       ELSE <<>> ]

-----------------------------------------------------------------------------
(* Inputs *)

\* Bounds of the model.
MaxProps == 2

MaxPhrases == 3

MaxCcapiPhrases == 2

\* All insertion-ordered dicts with at most n items over the given keys and
\* values.
OrderedDicts(keys, values, n) ==
    { d \in UNION { [1..m -> keys \X values] : m \in 0..n } :
        \A i, j \in 1..Len(d) : i # j => d[i][1] # d[j][1] }

\* The ParsedRequests handed to generate_resource_config by a caller.
PropKeys == { <<"Name">>, <<"Status">>, <<"/", "a">> }

PropValues == { <<"bar">>, <<"on">> }

Requests ==
    [ original_text : { <<>> },
      operation     : { None, <<>>, CREATE, GET, LIST, UPDATE, DELETE, VALIDATE },
      resource_type : { None, <<>>, S3Bucket },
      resource_name : { None, <<"foo">> },
      properties    : OrderedDicts(PropKeys, PropValues, MaxProps),
      identifier    : { None, <<>>, <<"x1">> } ]

\* The OperationResults handed to generate_response: absent, the empty
\* dict, and results of every status with and without the optional fields.
Statuses == { <<"IN_PROGRESS">>, <<"SUCCESS">>, <<"FAILED">>, <<"PENDING">> }

Results ==
    { <<>>, << <<>> >> }
    \cup { << [ operation_status |-> st ] >> : st \in Statuses }
    \cup { << [ operation |-> UPDATE, operation_status |-> st,
                request_token |-> <<"tok">>, identifier |-> <<"x1">> ] >> :
            st \in Statuses }
    \cup { << [ operation_status |-> <<"FAILED">>,
                error_code |-> <<"AlreadyExists">>,
                status_message |-> <<"bucket taken">> ] >>,
           << [ operation_status |-> <<"FAILED">>,
                error_code |-> <<"AlreadyExists">> ] >>,
           << [ operation_status |-> <<"SUCCESS">>,
                properties |-> << <<BucketName, <<"foo">> >> >> ] >>,
           << [ operation_status |-> <<"SUCCESS">>, resources |-> <<>> ] >>,
           << [ operation_status |-> <<"SUCCESS">>,
                resources |-> << [ identifier |-> <<"foo">> ],
                                 [ identifier |-> <<"x1">> ] >> ] >> }

\* The parsed requests of the schema-aware variant: the error dict of its
\* parse_request, or a resource type with params.
ParamKeys == { BucketName, TableName, KeySchema }

ParamValues == { <<"foo">> }

CcapiRequests ==
    { [ error |-> <<"Could not determine the resource type to create">> ] }
    \cup [ resource_type : { S3Bucket, DynamoDBTable, SQSQueue },
           params        : OrderedDicts(ParamKeys, ParamValues, MaxProps) ]

\* The stores a SchemaManager can hold after construction: every schema
\* file that could be loaded is cached; a file that could not be loaded is
\* on disk only.
StoreTypes == { S3Bucket, DynamoDBTable, SQSQueue }

Stores ==
    { st \in [ schemas : SUBSET StoreTypes, files : SUBSET StoreTypes ] :
        st.schemas \subseteq st.files }

EmptyStore == [ schemas |-> {}, files |-> {} ]

\* The request texts: up to MaxPhrases phrases of one family, one after the
\* other.
OperationPhrases ==
    { <<"create">>, <<"created">>, <<"Set">>, <<"up">>, <<"show">>, <<"all">>,
      <<"list">>, <<"update">>, <<"Delete">>, <<"bucket">>, <<"find">>,
      <<"get">> }

TypePhrases ==
    { <<"AWS", "::", "S3", "::", "Bucket">>,
      <<"xAWS", "::", "Lambda", "::", "Function">>,
      <<"aws", "::", "sqs", "::", "queue">>,
      <<"AWS", "::", "S3">>,
      <<"bucket">>, <<"function">>, <<"Table">>, <<"server">>, <<"db">>,
      <<"topic">>, <<"queue">> }

DetailPhrases ==
    { <<"create", "bucket">>, <<"update", "Table">>, <<"show", "queue">>,
      <<"Delete", "function">>,
      <<"named", "foo", ", ">>,
      <<"with", "name", " '", "foo", "-", "bar", "' ">>,
      <<"Name", ": ", "bar">>,
      <<"id", ": ", "x1", ", ">>,
      <<"identifier", "x1", "/", "foo">>,
      <<"versioning", ": '", "enabled", "' ">> }

RECURSIVE PhraseTexts(_, _)
PhraseTexts(phrases, n) ==
    IF n = 0 THEN { <<>> }
    ELSE LET shorter == PhraseTexts(phrases, n - 1) IN
         shorter \cup { t \o p : t \in shorter, p \in phrases }

\* Phrases around structured literals: a well-formed one, one with a
\* trailing comma that gives Name again, malformed ones, and ones with an
\* over-long integer before or behind what is malformed.
JsonPhrases ==
    { <<"create", "bucket">>,
      <<"Name", ": ", "bar", ", ">>,
      <<OpenBrace, "a", ": ", "1", CloseBrace>>,
      <<OpenBrace, "Name", ": ", "2", ", ", CloseBrace>>,
      <<OpenBrace, "a", ": ", "oops", CloseBrace>>,
      <<OpenBrace, "a", ": ", LongInteger, CloseBrace>>,
      <<OpenBrace, "a", ": ", "oops", ", ", "b", ": ", LongInteger, CloseBrace>>,
      <<OpenBrace, "a", ": ", LongInteger, "oops", CloseBrace>> }

Texts ==
    PhraseTexts(OperationPhrases, MaxPhrases)
    \cup PhraseTexts(TypePhrases, MaxPhrases)
    \cup PhraseTexts(DetailPhrases, MaxPhrases)
    \cup PhraseTexts(JsonPhrases, MaxPhrases)

\* The types, stores, configurations and ResourceConfigs of the direct calls.
SchemaTypes == StoreTypes \cup { LambdaFunction, EC2Instance }

DirectStores ==
    { st \in [ schemas : SUBSET SchemaTypes, files : SUBSET SchemaTypes ] :
        st.schemas \subseteq st.files }

ConfigKeys == ParamKeys \cup { Code, Role, ImageId }

DirectConfigs == OrderedDicts(ConfigKeys, ParamValues, MaxProps)

ResourceConfigs ==
    { [ error |-> <<"Could not determine the resource type to create">> ] }
    \cup [ type_name     : { S3Bucket, DynamoDBTable },
           desired_state : OrderedDicts(ParamKeys, ParamValues, 1) ]

\* The request texts of the schema-aware variant: up to MaxCcapiPhrases
\* phrases, one after the other.
CcapiPhrases ==
    { <<"create", "s3", "bucket">>,
      <<"Create", "an", "s3", "buckets">>,
      <<"recreate", "a", "dynamodb", "table">>,
      <<"create", "a", "lambda", "function">>,
      <<"create", "AWS", "::", "S3", "::", "Bucket">>,
      <<"BucketName", ": ", "foo">>,
      <<"bucketname", ": '", "bar", "' ">>,
      <<"name", ": '", "qux", "' ">>,
      <<"TableName", "t1">> }

\* Bucket requests: a create phrase, then at most one phrase each about
\* the name, versioning, public access and encryption.
BucketNamePhrases == { <<>>, <<"name", ": '", "qux", "' ">> }

VersioningPhrases ==
    { <<>>, <<"versioning", "enabled">>, <<"Versioning", ": ", "false">>,
      <<"versioning", "disabled">>, <<"versioning", ": ", "true">>,
      <<"versioning", "configuration", ": ", "disabled">>,
      <<"versioning", "foo">> }

PublicAccessPhrases ==
    { <<>>, <<"public", "access", "blocked">>,
      <<"public", "access", ": ", "allowed">>,
      <<"public", "access", "true">>, <<"public", "access", "false">> }

EncryptionPhrases ==
    { <<>>, <<"encryption", "enabled">>, <<"encryption", ": ", "disabled">>,
      <<"encryption", "true">>, <<"encryption", "false">> }

BucketTexts ==
    { <<"create", "an", "s3", "bucket">> \o v \o a \o e :
        v \in VersioningPhrases,
        a \in { <<>>, <<"public", "access", "blocked">> },
        e \in { <<>>, <<"encryption", ": ", "disabled">> } }
    \cup
    { <<"create", "an", "s3", "bucket">> \o n \o v \o a \o e :
        n \in BucketNamePhrases,
        v \in { <<>>, <<"versioning", "enabled">> },
        a \in PublicAccessPhrases, e \in EncryptionPhrases }

CcapiTexts == PhraseTexts(CcapiPhrases, MaxCcapiPhrases) \cup BucketTexts

\* The request texts sent to the endpoints: up to MaxPhrases phrases, one
\* after the other.
ApiPhrases ==
    { <<"create", "bucket">>, <<"show", "queue">>, <<"list", "topic">>,
      <<"update", "Table">>, <<"Delete", "function">>,
      <<"id", ": ", "x1", ", ">>, <<"Name", ": ", "bar">>,
      <<"named", "foo", ", ">> }

ApiTexts == PhraseTexts(ApiPhrases, MaxPhrases)

\* The stores of the operation-aware schema manager attached to the
\* endpoints.
AppStores ==
    { EmptyStore, [ schemas |-> { S3Bucket }, files |-> { S3Bucket } ] }

\* Before any direct call and before any API request.
NoCall == [op |-> "none"]

NoReply == [response |-> <<>>]

-----------------------------------------------------------------------------
(* The rule store of the operation-aware server                            *)
(* (src/app/guard_validator.py).  rules_dir maps the name of every file in *)
(* the rules directory to the text on disk.  A path inside the directory   *)
(* is the name under it; the empty name is the directory itself.  No call  *)
(* makes a subdirectory, so a name holding "/" is a path that does not     *)
(* exist and cannot be written.                                            *)

NoFiles == [ n \in {} |-> <<>> ]

GuardSuffix == <<".", "guard">>

\* Path.exists() of the path rules_dir / name.
PathExists(files, name) == name = <<>> \/ name \in DOMAIN files

\* Whether the parent of rules_dir / name is an existing directory.
ParentExists(name) == ~Contains(name, <<"/">>)

\* What text mode does to a text that is read: "\r\n" and "\r" become
\* "\n".  (Writing changes nothing where os.linesep is "\n".)
UniversalNewlines(content) ==
    [ i \in 1..Len(content) |->
        IF content[i] \in { "\r\n", "\r" } THEN "\n" ELSE content[i] ]

\* Path.read_text(): Raised for the directory (IsADirectoryError).
ReadText(files, name) ==
    IF name = <<>> THEN Raised ELSE UniversalNewlines(files[name])

\* The rule_name of save_rule and delete_rule after lines 85-86, 106-107.
WithSuffix(rule_name) ==
    IF ~EndsWith(rule_name, GuardSuffix) THEN rule_name \o GuardSuffix
    ELSE rule_name

\* Path(rules_dir).glob("*.guard"): the file names of the listing; their
\* order is the directory's and is not modelled.
GlobGuard(files) ==
    { n \in DOMAIN files : EndsWith(n, GuardSuffix) /\ ParentExists(n) }

\* GuardValidator.list_rules
list_rules(files) == GlobGuard(files)

\* GuardValidator.get_rule_content
get_rule_content(files, rule_name) ==
    LET rule_path ==
            IF ~PathExists(files, rule_name) /\ ~EndsWith(rule_name, GuardSuffix)
            THEN rule_name \o GuardSuffix
            ELSE rule_name
    IN IF PathExists(files, rule_path) THEN ReadText(files, rule_path) ELSE None

\* The directory after a write of content to the file name.
WriteText(files, name, content) ==
    [ n \in DOMAIN files \cup { name } |->
        IF n = name THEN content ELSE files[n] ]

\* GuardValidator.save_rule: [files, ret].
save_rule(files, rule_name, rule_content) ==
    LET name == WithSuffix(rule_name) IN
    IF ParentExists(name)
    THEN [ files |-> WriteText(files, name, rule_content), ret |-> TRUE ]
    ELSE [ files |-> files, ret |-> FALSE ]

\* GuardValidator.delete_rule: [files, ret].
delete_rule(files, rule_name) ==
    LET name == WithSuffix(rule_name) IN
    IF name \in DOMAIN files
    THEN [ files |-> [ n \in DOMAIN files \ { name } |-> files[n] ],
           ret |-> TRUE ]
    ELSE [ files |-> files, ret |-> FALSE ]

\* The example rules of generate_example_rules: file name -> content.
ExampleRules ==
    << << <<"s3_bucket_encryption", ".", "guard">>,
          <<"\n", "# Rule to ensure S3 buckets have encryption enabled", "\n">> >>,
       << <<"s3_bucket_versioning", ".", "guard">>,
          <<"\n", "# Rule to ensure S3 buckets have versioning enabled", "\n">> >>,
       << <<"s3_bucket_public_access", ".", "guard">>,
          <<"\n", "# Rule to ensure S3 buckets block public access", "\n">> >> >>

\* GuardValidator.generate_example_rules: the directory after the call.
generate_example_rules(files) ==
    IF GlobGuard(files) = {}
    THEN LET one   == save_rule(files, ExampleRules[1][1], ExampleRules[1][2]).files
             two   == save_rule(one, ExampleRules[2][1], ExampleRules[2][2]).files
         IN save_rule(two, ExampleRules[3][1], ExampleRules[3][2]).files
    ELSE files

\* What Guard.check_string answers for a rule text on the data of the call:
\* a status, or "raise" when the engine raises.
GuardStatuses == { "PASS", "FAIL", "raise" }

\* The entry of validation_results for one rule file (lines 166-212).
RuleResult(files, rule_file, verdicts) ==
    IF ~PathExists(files, rule_file)
    THEN [ rule_file |-> rule_file, valid |-> TRUE,
           message |-> <<"Rule file not found">> ]
    ELSE IF ReadText(files, rule_file) = Raised
    THEN [ rule_file |-> rule_file, valid |-> FALSE,
           error |-> <<"Is a directory">> ]
    ELSE IF verdicts[ReadText(files, rule_file)] = "raise"
    THEN [ rule_file |-> rule_file, valid |-> FALSE,
           error |-> <<"engine error">> ]
    ELSE [ rule_file |-> rule_file,
           valid |-> verdicts[ReadText(files, rule_file)] = "PASS",
           status |-> verdicts[ReadText(files, rule_file)] ]

\* The rule files validate_resource looks at: rule_names as given, under
\* the rules directory, or the listing when rule_names is None or empty.
RuleFiles(files, rule_names) ==
    IF rule_names # <<>>
    THEN { rule_names[i] : i \in 1..Len(rule_names) }
    ELSE GlobGuard(files)

\* GuardValidator.validate_resource: [is_valid, results]; results holds the
\* entries of validation_results, one per rule file.
validate_resource(files, rule_names, verdicts) ==
    LET rule_files == RuleFiles(files, rule_names)
        results    == { RuleResult(files, f, verdicts) : f \in rule_files }
    IN
    IF rule_files = {}
    THEN [ is_valid |-> TRUE,
           results |-> { [ message |-> <<"No rules found for validation">> ] } ]
    ELSE [ is_valid |-> \A r \in results : r.valid,
           results |-> results ]

-----------------------------------------------------------------------------
(* Actions *)

\* A caller parses its text.
ParseRequest ==
    /\ pc = "input"
    /\ request' = parse_request(text)
    /\ pc' = IF "raised" \in DOMAIN parse_request(text) THEN "raised" ELSE "parsed"
    /\ UNCHANGED <<text, vrequest, config, result, response, variant, schema_manager, again, aux>>

\* The same text is handed to the validation parser.
ParseValidationRequest ==
    /\ pc = "parsed"
    /\ variant = "app"
    /\ vrequest' = parse_validation_request(text)
    /\ pc' = "validation_parsed"
    /\ UNCHANGED <<text, request, config, result, response, variant, schema_manager, again, aux>>

GenerateResourceConfig ==
    /\ pc = "parsed"
    /\ variant = "app"
    /\ config' = generate_resource_config(request)
    /\ pc' = "built"
    /\ UNCHANGED <<text, request, vrequest, result, response, variant, schema_manager, again, aux>>

GenerateResponse ==
    /\ pc = "built"
    /\ variant = "app"
    /\ \E res \in Results :
        /\ result' = res
        /\ response' = generate_response(config, res)
    /\ pc' = "rendered"
    /\ UNCHANGED <<text, request, vrequest, config, variant, schema_manager, again, aux>>

CcapiGenerateResourceConfig ==
    /\ pc = "parsed"
    /\ variant = "ccapi"
    /\ \E outcomes \in [1..3 -> RegistryOutcomes] :
        LET r == ccapi_generate_resource_config(schema_manager, request, outcomes) IN
        /\ config' = r.config
        /\ schema_manager' = r.store
        /\ pc' = IF "raised" \in DOMAIN r.config THEN "raised" ELSE "built"
    /\ UNCHANGED <<text, request, vrequest, result, response, variant, again, aux>>

CcapiGenerateResponse ==
    /\ pc = "built"
    /\ variant = "ccapi"
    /\ \E res \in Results, outcome \in RegistryOutcomes :
        LET r == ccapi_generate_response(schema_manager, config, res, outcome) IN
        /\ result' = res
        /\ response' = r.text
        /\ schema_manager' = r.store
        /\ pc' = IF r.text = Raised THEN "raised" ELSE "rendered"
    /\ UNCHANGED <<text, request, vrequest, config, variant, again, aux>>

\* A caller of the schema-aware variant parses its text.
CcapiParseRequest ==
    /\ pc = "input"
    /\ variant = "ccapi"
    /\ \E outcomes \in [1..2 -> RegistryOutcomes] :
        LET r == ccapi_parse_request(schema_manager, text, outcomes) IN
        /\ request' = r.request
        /\ schema_manager' = r.store
        /\ pc' = IF "raised" \in DOMAIN r.request THEN "raised" ELSE "parsed"
    /\ UNCHANGED <<text, vrequest, config, result, response, variant, again, aux>>

\* The same text is parsed a second time; the registry answers as it does at
\* that moment.
CcapiParseRequestAgain ==
    /\ pc = "parsed"
    /\ variant = "ccapi"
    /\ \E outcomes \in [1..2 -> RegistryOutcomes] :
        LET r == ccapi_parse_request(schema_manager, text, outcomes) IN
        /\ again' = r.request
        /\ schema_manager' = r.store
    /\ pc' = "parsed_again"
    /\ UNCHANGED <<text, request, vrequest, config, result, response, variant, aux>>

\* POST /llm/resources with the text, the execute flag and a role.
ProcessNaturalLanguageRequest ==
    /\ pc = "input"
    /\ variant = "app"
    /\ \E execute \in BOOLEAN, role_arn \in { None, <<"arn">> },
          answer \in BackendAnswers :
        LET r == process_natural_language_request(text, execute, role_arn, answer) IN
        /\ call' = [ op |-> "process_natural_language_request",
                     execute |-> execute, role_arn |-> role_arn,
                     answer |-> answer ]
        /\ reply' = r.reply
        /\ backend' = r.backend
    /\ pc' = "replied"
    /\ UNCHANGED <<text, request, vrequest, config, result, response, variant,
                   schema_manager, again, guard>>

\* The text is handed to process_validation_request, as POST /llm/validate
\* does.
ProcessValidationRequest ==
    /\ pc = "input"
    /\ variant = "app"
    /\ \E attached \in BOOLEAN, outcome \in RegistryOutcomes :
        LET r == process_validation_request(schema_manager, text, attached,
                                            outcome) IN
        /\ vrequest' = [ operation |-> r.ret[1], resource_type |-> r.ret[2],
                         resource_config |-> r.ret[3], attached |-> attached,
                         before |-> schema_manager ]
        /\ schema_manager' = r.store
    /\ pc' = "validation_processed"
    /\ UNCHANGED <<text, request, config, result, response, variant, again, aux>>

\* Direct calls: a caller holding the schema manager, or a ResourceConfig,
\* calls one method; call records the arguments and what came back.
DownloadSchema ==
    /\ pc = "idle"
    /\ \E type_name \in SchemaTypes, outcome \in RegistryOutcomes :
        LET d == download_schema(schema_manager, type_name, outcome) IN
        /\ call' = [ op |-> "download_schema", type_name |-> type_name,
                     before |-> schema_manager, ok |-> d.ok,
                     queries |-> IF type_name \in schema_manager.files
                                 THEN 0 ELSE 1 ]
        /\ schema_manager' = d.store
    /\ pc' = "returned"
    /\ UNCHANGED <<text, request, vrequest, config, result, response, variant,
                   again, backend, reply, guard>>

GetSchema ==
    /\ pc = "idle"
    /\ \E type_name \in SchemaTypes, outcome \in RegistryOutcomes :
        LET g == get_schema(schema_manager, type_name, outcome) IN
        /\ call' = [ op |-> "get_schema", type_name |-> type_name,
                     before |-> schema_manager, found |-> g.found,
                     raised |-> g.raised ]
        /\ schema_manager' = g.store
    /\ pc' = "returned"
    /\ UNCHANGED <<text, request, vrequest, config, result, response, variant,
                   again, backend, reply, guard>>

ValidateResourceConfig ==
    /\ pc = "idle"
    /\ \E type_name \in SchemaTypes, cfg \in DirectConfigs,
          outcomes \in [1..2 -> RegistryOutcomes] :
        LET v == validate_resource_config(schema_manager, type_name, cfg, outcomes) IN
        /\ call' = [ op |-> "validate_resource_config", type_name |-> type_name,
                     config |-> cfg, raised |-> v.raised, valid |-> v.valid,
                     errors |-> v.errors ]
        /\ schema_manager' = v.store
    /\ pc' = "returned"
    /\ UNCHANGED <<text, request, vrequest, config, result, response, variant,
                   again, backend, reply, guard>>

GenerateResourceTemplate ==
    /\ pc = "idle"
    /\ \E type_name \in SchemaTypes, include_optional \in BOOLEAN,
          outcome \in RegistryOutcomes :
        LET r == generate_resource_template(schema_manager, type_name,
                                            include_optional, outcome) IN
        /\ call' = [ op |-> "generate_resource_template", type_name |-> type_name,
                     include_optional |-> include_optional,
                     raised |-> r.raised, template |-> r.template ]
        /\ schema_manager' = r.store
    /\ pc' = "returned"
    /\ UNCHANGED <<text, request, vrequest, config, result, response, variant,
                   again, backend, reply, guard>>

\* The same call on the schema manager of the operation-aware variant.
AppGenerateResourceTemplate ==
    /\ pc = "idle"
    /\ \E type_name \in SchemaTypes, include_optional \in BOOLEAN,
          outcome \in RegistryOutcomes :
        LET r == app_generate_resource_template(schema_manager, type_name,
                                                include_optional, outcome) IN
        /\ call' = [ op |-> "app_generate_resource_template",
                     type_name |-> type_name,
                     include_optional |-> include_optional,
                     raised |-> FALSE, template |-> r.template ]
        /\ schema_manager' = r.store
    /\ pc' = "returned"
    /\ UNCHANGED <<text, request, vrequest, config, result, response, variant,
                   again, backend, reply, guard>>

AppValidateResourceConfig ==
    /\ pc = "idle"
    /\ \E type_name \in SchemaTypes, cfg \in DirectConfigs,
          outcome \in RegistryOutcomes :
        \E error \in JsonSchemaErrors(type_name, cfg) \cup { <<>> } :
        LET v == app_validate_resource_config(schema_manager, type_name, cfg,
                                              outcome, error) IN
        /\ error = <<>> <=> JsonSchemaErrors(type_name, cfg) = {}
        /\ call' = [ op |-> "app_validate_resource_config",
                     type_name |-> type_name, config |-> cfg,
                     raised |-> FALSE, valid |-> v.valid, errors |-> v.errors ]
        /\ schema_manager' = v.store
    /\ pc' = "returned"
    /\ UNCHANGED <<text, request, vrequest, config, result, response, variant,
                   again, backend, reply, guard>>

\* LLMInterface.generate_response on a ResourceConfig the caller holds.
RenderConfig ==
    /\ pc = "idle"
    /\ \E resource_config \in ResourceConfigs, res \in { <<>>, << <<>> >> },
          outcome \in RegistryOutcomes :
        LET r == ccapi_generate_response(schema_manager, resource_config, res,
                                         outcome) IN
        /\ call' = [ op |-> "generate_response", config |-> resource_config,
                     result |-> res, before |-> schema_manager, text |-> r.text ]
        /\ schema_manager' = r.store
    /\ pc' = "returned"
    /\ UNCHANGED <<text, request, vrequest, config, result, response, variant,
                   again, backend, reply, guard>>

\* The same (config, result) is rendered a second time; the registry answers
\* as it does at that moment.
RenderConfigAgain ==
    /\ pc = "returned"
    /\ call.op = "generate_response"
    /\ call.text # Raised
    /\ \E outcome \in RegistryOutcomes :
        LET r == ccapi_generate_response(schema_manager, call.config, call.result,
                                         outcome) IN
        /\ again' = r.text
        /\ schema_manager' = r.store
    /\ pc' = "returned_again"
    /\ UNCHANGED <<text, request, vrequest, config, result, response, variant, aux>>

-----------------------------------------------------------------------------
(* The endpoints POST /resources, GET /schemas/{type_name} and             *)
(* GET /templates/{type_name} (src/app/main.py:140-222, 577-631).  A reply *)
(* is [status_code, body] for a returned model and [status_code, detail]   *)
(* for an HTTPException that leaves the handler.                           *)

\* str() of an HTTPException: the status code, then the detail.
HttpExceptionStr(status_code, detail) == <<status_code, ": ">> \o detail

\* The except clause that closes each of the three handlers: whatever was
\* raised in the try block, an HTTPException included, leaves as status 500
\* with str(e) as detail.
ExceptException(e) ==
    IF e.kind = "HTTPException"
    THEN [ status_code |-> 500,
           detail |-> HttpExceptionStr(e.status_str, e.detail) ]
    ELSE [ status_code |-> 500, detail |-> e.detail ]

BadRequest(detail) ==
    [ kind |-> "HTTPException", status_code |-> 400, status_str |-> "400",
      detail |-> detail ]

NotFound(detail) ==
    [ kind |-> "HTTPException", status_code |-> 404, status_str |-> "404",
      detail |-> detail ]

\* create_resource: [store, reply, backend].  The policy detail is a dict;
\* its message stands for it.  ClientToken, the request's or a fresh uuid4,
\* is left out of the call.  body is the ResourceRequest; world holds what
\* the surroundings do during the request: the registry's outcome, the
\* violation jsonschema reports (error), the engine's verdicts and the
\* client's answer.
create_resource(store, body, validate_policy, files, world) ==
    LET type_name == body.type_name
        desired_state == body.desired_state
        role_arn == body.role_arn
        answer == world.answer
        validation_result ==
            app_validate_resource_config(store, type_name, desired_state,
                                         world.outcome, world.error)
        policy == validate_resource(files, <<>>, world.verdicts)
        resource_config == [ operation |-> CREATE, type_name |-> type_name,
                             desired_state |-> desired_state ]
    IN
    IF ~validation_result.valid
    THEN [ store |-> validation_result.store,
           reply |-> ExceptException(BadRequest(
                        <<"Invalid resource configuration: ">>
                        \o Join(<<"; ">>, validation_result.errors))),
           backend |-> <<>> ]
    ELSE IF validate_policy /\ ~policy.is_valid
    THEN [ store |-> validation_result.store,
           reply |-> ExceptException(BadRequest(
                        <<"Resource configuration does not comply with policy rules">>)),
           backend |-> <<>> ]
    ELSE [ store |-> validation_result.store,
           reply |-> IF answer.kind = "raise"
                     THEN ExceptException([ kind |-> "Exception",
                                            detail |-> answer.message ])
                     ELSE [ status_code |-> 200,
                            body |-> BackendResult(resource_config, answer) ],
           backend |-> << BackendCall(resource_config, role_arn) >> ]

\* get_resource_schema: [store, reply].
get_resource_schema(store, type_name, outcome) ==
    LET g == app_obtain_schema(store, type_name, outcome) IN
    [ store |-> g.store,
      reply |-> IF ~g.found
                THEN ExceptException(NotFound(
                        <<"Schema not found for resource type: ">> \o type_name))
                ELSE [ status_code |-> 200,
                       body |-> [ type_name |-> type_name,
                                  schema |-> SchemaOf(type_name) ] ] ]

\* get_resource_template: [store, reply]; "not template" holds for None
\* and for the empty template.
get_resource_template(store, type_name, include_optional, outcome) ==
    LET r == app_generate_resource_template(store, type_name,
                                            include_optional, outcome) IN
    [ store |-> r.store,
      reply |-> IF r.template = None \/ r.template = <<>>
                THEN ExceptException(NotFound(
                        <<"Template not found for resource type: ">> \o type_name))
                ELSE [ status_code |-> 200,
                       body |-> [ type_name |-> type_name,
                                  template |-> r.template ] ] ]

\* The requests of these endpoints and the rule directories they find.
HttpConfigs == OrderedDicts(ConfigKeys, ParamValues, 1)

HttpRuleDirs ==
    { NoFiles,
      [ n \in { <<"enc", ".", "guard">> } |-> <<"rule b {", "\n", "}">> ] }

HttpVerdicts == [ { <<"rule b {", "\n", "}">> } -> GuardStatuses ]

\* POST /resources
CreateResource ==
    /\ pc = "request"
    /\ \E type_name \in SchemaTypes, desired_state \in HttpConfigs,
          role_arn \in { None, <<"arn">> }, validate_policy \in BOOLEAN,
          verdicts \in HttpVerdicts, outcome \in RegistryOutcomes,
          answer \in BackendAnswers :
        \E error \in JsonSchemaErrors(type_name, desired_state) \cup { <<>> } :
        LET r == create_resource(schema_manager,
                    [ type_name |-> type_name, desired_state |-> desired_state,
                      role_arn |-> role_arn ],
                    validate_policy, rules_dir,
                    [ outcome |-> outcome, error |-> error,
                      verdicts |-> verdicts, answer |-> answer ])
            v == app_validate_resource_config(schema_manager, type_name,
                                              desired_state, outcome, error)
        IN
        /\ error = <<>> <=> JsonSchemaErrors(type_name, desired_state) = {}
        /\ call' = [ op |-> "create_resource", type_name |-> type_name,
                     desired_state |-> desired_state,
                     validate_policy |-> validate_policy,
                     valid |-> v.valid,
                     complies |-> validate_resource(rules_dir, <<>>,
                                                    verdicts).is_valid,
                     answer |-> answer ]
        /\ reply' = r.reply
        /\ backend' = r.backend
        /\ schema_manager' = r.store
    /\ pc' = "responded"
    /\ UNCHANGED <<text, request, vrequest, config, result, response, variant,
                   again, guard>>

\* GET /schemas/{type_name}
GetResourceSchema ==
    /\ pc = "request"
    /\ \E type_name \in SchemaTypes, outcome \in RegistryOutcomes :
        LET r == get_resource_schema(schema_manager, type_name, outcome) IN
        /\ call' = [ op |-> "get_resource_schema", type_name |-> type_name,
                     found |-> app_obtain_schema(schema_manager, type_name,
                                                 outcome).found ]
        /\ reply' = r.reply
        /\ schema_manager' = r.store
    /\ pc' = "responded"
    /\ UNCHANGED <<text, request, vrequest, config, result, response, variant,
                   again, backend, guard>>

\* GET /templates/{type_name}
GetResourceTemplate ==
    /\ pc = "request"
    /\ \E type_name \in SchemaTypes, include_optional \in BOOLEAN,
          outcome \in RegistryOutcomes :
        LET r == get_resource_template(schema_manager, type_name,
                                       include_optional, outcome) IN
        /\ call' = [ op |-> "get_resource_template", type_name |-> type_name,
                     include_optional |-> include_optional,
                     found |-> app_obtain_schema(schema_manager, type_name,
                                                 outcome).found ]
        /\ reply' = r.reply
        /\ schema_manager' = r.store
    /\ pc' = "responded"
    /\ UNCHANGED <<text, request, vrequest, config, result, response, variant,
                   again, backend, guard>>

\* Calls of the rule store.  The names: without and with the suffix, a
\* second rule, the empty name and a name in a directory that does not
\* exist.  The contents: one with a Windows line end, one without.
RuleNames ==
    { <<"enc">>, <<"enc", ".", "guard">>, <<"pub">>, <<>>,
      <<"no", "/", "such">> }

RuleContents ==
    { <<"rule a {", "\r\n", "}">>, <<"rule b {", "\n", "}">> }

\* The rule_names arguments of validate_resource; <<>> is None or [].
RuleNameLists ==
    { <<>>, <<<<"enc">>, <<"pub">>>>, <<<<"enc", ".", "guard">>, <<"pub", ".", "guard">>>> }
    \cup { <<n>> : n \in RuleNames }

\* The rule texts the engine can be handed.
ReadContents ==
    { UniversalNewlines(c) : c \in RuleContents }
    \cup { ExampleRules[i][2] : i \in 1..Len(ExampleRules) }

SaveRule ==
    /\ pc = "rules"
    /\ \E rule_name \in RuleNames, rule_content \in RuleContents :
        LET r == save_rule(rules_dir, rule_name, rule_content) IN
        /\ rules_dir' = r.files
        /\ saved_rules' = IF r.ret
                          THEN WriteText(saved_rules, WithSuffix(rule_name),
                                         rule_content)
                          ELSE saved_rules
        /\ call' = [ op |-> "save_rule", rule_name |-> rule_name,
                     rule_content |-> rule_content, before |-> rules_dir,
                     saved |-> saved_rules, ret |-> r.ret ]
    /\ UNCHANGED <<pc, text, request, vrequest, config, result, response,
                   variant, schema_manager, again, backend, reply>>

DeleteRule ==
    /\ pc = "rules"
    /\ \E rule_name \in RuleNames :
        LET r == delete_rule(rules_dir, rule_name) IN
        /\ rules_dir' = r.files
        /\ saved_rules' =
                IF r.ret
                THEN [ n \in DOMAIN saved_rules \ { WithSuffix(rule_name) } |->
                         saved_rules[n] ]
                ELSE saved_rules
        /\ call' = [ op |-> "delete_rule", rule_name |-> rule_name,
                     before |-> rules_dir, saved |-> saved_rules,
                     ret |-> r.ret ]
    /\ UNCHANGED <<pc, text, request, vrequest, config, result, response,
                   variant, schema_manager, again, backend, reply>>

GetRuleContent ==
    /\ pc = "rules"
    /\ \E rule_name \in RuleNames :
        call' = [ op |-> "get_rule_content", rule_name |-> rule_name,
                  before |-> rules_dir, saved |-> saved_rules,
                  ret |-> get_rule_content(rules_dir, rule_name) ]
    /\ UNCHANGED <<pc, text, request, vrequest, config, result, response,
                   variant, schema_manager, again, backend, reply, guard>>

ListRules ==
    /\ pc = "rules"
    /\ call' = [ op |-> "list_rules", before |-> rules_dir,
                 saved |-> saved_rules, ret |-> list_rules(rules_dir) ]
    /\ UNCHANGED <<pc, text, request, vrequest, config, result, response,
                   variant, schema_manager, again, backend, reply, guard>>

GenerateExampleRules ==
    /\ pc = "rules"
    /\ rules_dir' = generate_example_rules(rules_dir)
    /\ saved_rules' =
            IF rules_dir' # rules_dir
            THEN WriteText(WriteText(WriteText(saved_rules,
                     ExampleRules[1][1], ExampleRules[1][2]),
                     ExampleRules[2][1], ExampleRules[2][2]),
                     ExampleRules[3][1], ExampleRules[3][2])
            ELSE saved_rules
    /\ call' = [ op |-> "generate_example_rules", before |-> rules_dir,
                 saved |-> saved_rules ]
    /\ UNCHANGED <<pc, text, request, vrequest, config, result, response,
                   variant, schema_manager, again, backend, reply>>

\* One validate_resource call; verdicts is what the engine answers for each
\* rule text on the data of this call.  The call leaves the directory as it
\* is, so the calls after it are those of the state before it and are not
\* followed further.
ValidateResource ==
    /\ pc = "rules"
    /\ pc' = "validated"
    /\ \E rule_names \in RuleNameLists, verdicts \in [ReadContents -> GuardStatuses] :
        call' = [ op |-> "validate_resource", rule_names |-> rule_names,
                  verdicts |-> verdicts, before |-> rules_dir,
                  saved |-> saved_rules,
                  ret |-> validate_resource(rules_dir, rule_names, verdicts) ]
    /\ UNCHANGED <<text, request, vrequest, config, result, response,
                   variant, schema_manager, again, backend, reply, guard>>

-----------------------------------------------------------------------------
(* Specifications *)

\* Spec: the generators of both variants on every ParsedRequest of the
\* input sets.
Init ==
    /\ pc = "parsed"
    /\ text = <<>>
    /\ vrequest = <<>>
    /\ config = <<>>
    /\ result = <<>>
    /\ response = <<>>
    /\ again = <<>>
    /\ call = NoCall
    /\ backend = <<>>
    /\ reply = NoReply
    /\ rules_dir = NoFiles
    /\ saved_rules = NoFiles
    /\ \/ variant = "app" /\ request \in Requests /\ schema_manager = EmptyStore
       \/ variant = "ccapi" /\ request \in CcapiRequests /\ schema_manager \in Stores

Next ==
    \/ GenerateResourceConfig
    \/ GenerateResponse
    \/ CcapiGenerateResourceConfig
    \/ CcapiGenerateResponse

Spec == Init /\ [][Next]_vars

\* SpecParse: the operation-aware variant from the request text on.
InitParse ==
    /\ pc = "input"
    /\ text \in Texts
    /\ request = <<>>
    /\ vrequest = <<>>
    /\ config = <<>>
    /\ result = <<>>
    /\ response = <<>>
    /\ again = <<>>
    /\ call = NoCall
    /\ backend = <<>>
    /\ reply = NoReply
    /\ rules_dir = NoFiles
    /\ saved_rules = NoFiles
    /\ variant = "app"
    /\ schema_manager = EmptyStore

NextParse ==
    \/ ParseRequest
    \/ ParseValidationRequest
    \/ GenerateResourceConfig
    \/ GenerateResponse

SpecParse == InitParse /\ [][NextParse]_vars

\* SpecCcapiParse: the schema-aware parse_request from the request text on,
\* in every store state.
InitCcapiParse ==
    /\ pc = "input"
    /\ text \in CcapiTexts
    /\ request = <<>>
    /\ vrequest = <<>>
    /\ config = <<>>
    /\ result = <<>>
    /\ response = <<>>
    /\ again = <<>>
    /\ call = NoCall
    /\ backend = <<>>
    /\ reply = NoReply
    /\ rules_dir = NoFiles
    /\ saved_rules = NoFiles
    /\ variant = "ccapi"
    /\ schema_manager \in Stores

NextCcapiParse ==
    \/ CcapiParseRequest
    \/ CcapiParseRequestAgain

SpecCcapiParse == InitCcapiParse /\ [][NextCcapiParse]_vars

\* SpecApi: the endpoints of the operation-aware server from the request
\* text on.
InitApi ==
    /\ pc = "input"
    /\ text \in ApiTexts
    /\ request = <<>>
    /\ vrequest = <<>>
    /\ config = <<>>
    /\ result = <<>>
    /\ response = <<>>
    /\ again = <<>>
    /\ call = NoCall
    /\ backend = <<>>
    /\ reply = NoReply
    /\ rules_dir = NoFiles
    /\ saved_rules = NoFiles
    /\ variant = "app"
    /\ schema_manager \in AppStores

NextApi ==
    \/ ProcessNaturalLanguageRequest
    \/ ProcessValidationRequest

SpecApi == InitApi /\ [][NextApi]_vars

\* SpecDirect: direct calls of the schema-aware variant in every store
\* state.
InitDirect ==
    /\ pc = "idle"
    /\ text = <<>>
    /\ request = <<>>
    /\ vrequest = <<>>
    /\ config = <<>>
    /\ result = <<>>
    /\ response = <<>>
    /\ again = <<>>
    /\ call = NoCall
    /\ backend = <<>>
    /\ reply = NoReply
    /\ rules_dir = NoFiles
    /\ saved_rules = NoFiles
    /\ variant = "ccapi"
    /\ schema_manager \in DirectStores

NextDirect ==
    \/ DownloadSchema
    \/ GetSchema
    \/ ValidateResourceConfig
    \/ GenerateResourceTemplate
    \/ AppGenerateResourceTemplate
    \/ AppValidateResourceConfig
    \/ RenderConfig
    \/ RenderConfigAgain

SpecDirect == InitDirect /\ [][NextDirect]_vars

\* SpecRules: calls of the rule store, from the empty rules directory that
\* GuardValidator() makes.
InitRules ==
    /\ pc = "rules"
    /\ text = <<>>
    /\ request = <<>>
    /\ vrequest = <<>>
    /\ config = <<>>
    /\ result = <<>>
    /\ response = <<>>
    /\ again = <<>>
    /\ call = NoCall
    /\ backend = <<>>
    /\ reply = [response |-> <<>>]
    /\ rules_dir = NoFiles
    /\ saved_rules = NoFiles
    /\ variant = "app"
    /\ schema_manager = EmptyStore

NextRules ==
    \/ SaveRule
    \/ DeleteRule
    \/ GetRuleContent
    \/ ListRules
    \/ GenerateExampleRules
    \/ ValidateResource

SpecRules == InitRules /\ [][NextRules]_vars

\* SpecHttp: one request to POST /resources, GET /schemas/{type_name} or
\* GET /templates/{type_name}.
InitHttp ==
    /\ pc = "request"
    /\ text = <<>>
    /\ request = <<>>
    /\ vrequest = <<>>
    /\ config = <<>>
    /\ result = <<>>
    /\ response = <<>>
    /\ again = <<>>
    /\ call = NoCall
    /\ backend = <<>>
    /\ reply = [response |-> <<>>]
    /\ rules_dir \in HttpRuleDirs
    /\ saved_rules = rules_dir
    /\ variant = "app"
    /\ schema_manager \in AppStores

NextHttp ==
    \/ CreateResource
    \/ GetResourceSchema
    \/ GetResourceTemplate

SpecHttp == InitHttp /\ [][NextHttp]_vars

-----------------------------------------------------------------------------
(* Properties.  Parsed: parse_request has returned.  Built: the             *)
(* operation-aware generate_resource_config has returned.                   *)

\* C1: for every text, parse_request sets operation to the first of CREATE,
\* GET, LIST, UPDATE, DELETE, in that order, whose synonym set has a
\* whole-word match in the lower-cased text, and to None when none matches;
\* of the operations a text holds keywords of, the earliest is its class.
OperationPriority ==
    pc \notin { "input", "raised" } =>
        LET low == Lower(text)
            c == SearchWords(low, CreateWords)
            g == SearchWords(low, GetWords)
            l == SearchWords(low, ListWords)
            u == SearchWords(low, UpdateWords)
            d == SearchWords(low, DeleteWords)
        IN /\ c => request.operation = CREATE
           /\ (~c /\ g) => request.operation = GET
           /\ (~c /\ ~g /\ l) => request.operation = LIST
           /\ (~c /\ ~g /\ ~l /\ u) => request.operation = UPDATE
           /\ (~c /\ ~g /\ ~l /\ ~u /\ d) => request.operation = DELETE
           /\ (~c /\ ~g /\ ~l /\ ~u /\ ~d) => request.operation = None

\* A text with a LIST keyword and a GET keyword ("show all") and a DELETE
\* keyword has been parsed and classified as GET.
OperationPriorityWitness ==
    /\ pc = "parsed"
    /\ SearchWords(Lower(text), ListWords)
    /\ SearchWords(Lower(text), DeleteWords)
    /\ ~SearchWords(Lower(text), CreateWords)
    /\ request.operation = GET

\* C2: for every text, resource_type is the leftmost AWS::<Service>::<Type>
\* token of the text, in the text's own case, whenever there is one, even
\* if the text also holds keywords of the table; otherwise the type of the
\* first matching row of the table S3, Lambda, DynamoDB, EC2, RDS, SNS, SQS;
\* otherwise None.  parse_validation_request gives the same text the same
\* resource_type.
ResourceTypeDetection ==
    /\ pc \notin { "input", "raised" } =>
        LET low == Lower(text)
            explicit == \E i \in 1..Len(text) : ExplicitTypeAt(text, i)
            s3  == SearchWords(low, S3Words)
            lam == SearchWords(low, LambdaWords)
            ddb == SearchWords(low, DynamoDBWords)
            ec2 == SearchWords(low, EC2Words)
            rds == SearchWords(low, RDSWords)
            sns == SearchWords(low, SNSWords)
            sqs == SearchWords(low, SQSWords)
        IN /\ explicit =>
                \E i \in 1..Len(text) :
                    /\ ExplicitTypeAt(text, i)
                    /\ \A k \in 1..(i - 1) : ~ExplicitTypeAt(text, k)
                    /\ request.resource_type =
                           <<"AWS", "::", text[i + 2], "::", text[i + 4]>>
           /\ (~explicit /\ s3) => request.resource_type = S3Bucket
           /\ (~explicit /\ ~s3 /\ lam) => request.resource_type = LambdaFunction
           /\ (~explicit /\ ~s3 /\ ~lam /\ ddb) =>
                request.resource_type = DynamoDBTable
           /\ (~explicit /\ ~s3 /\ ~lam /\ ~ddb /\ ec2) =>
                request.resource_type = EC2Instance
           /\ (~explicit /\ ~s3 /\ ~lam /\ ~ddb /\ ~ec2 /\ rds) =>
                request.resource_type = RDSDBInstance
           /\ (~explicit /\ ~s3 /\ ~lam /\ ~ddb /\ ~ec2 /\ ~rds /\ sns) =>
                request.resource_type = SNSTopic
           /\ (~explicit /\ ~s3 /\ ~lam /\ ~ddb /\ ~ec2 /\ ~rds /\ ~sns /\ sqs) =>
                request.resource_type = SQSQueue
           /\ (~explicit /\ ~s3 /\ ~lam /\ ~ddb /\ ~ec2 /\ ~rds /\ ~sns /\ ~sqs) =>
                request.resource_type = None
    /\ pc = "validation_parsed" =>
        vrequest.resource_type = request.resource_type

\* A text with the explicit token AWS::Lambda::Function and the S3 keyword
\* "bucket" has gone through both parsers, and both report the token.
ResourceTypeDetectionWitness ==
    /\ pc = "validation_parsed"
    /\ SearchWords(Lower(text), { <<"bucket">> })
    /\ request.resource_type = LambdaFunction
    /\ vrequest.resource_type = LambdaFunction

\* C3: generate_resource_config returns the error variant, an error string
\* and the unmodified parsed_request, whenever operation or resource_type
\* is unset, with the operation error when both are; every config without
\* an error field has a non-empty type_name.
RequiredFieldsChecked ==
    (variant = "app" /\ pc \in { "built", "rendered" }) =>
        /\ ~Truthy(request.operation) =>
              config = [ error |-> OperationError, parsed_request |-> request ]
        /\ (Truthy(request.operation) /\ ~Truthy(request.resource_type)) =>
              config = [ error |-> ResourceTypeError, parsed_request |-> request ]
        /\ "error" \notin DOMAIN config =>
              /\ "type_name" \in DOMAIN config
              /\ Truthy(config.type_name)

\* A request with neither operation nor resource_type was answered with the
\* operation error.
RequiredFieldsCheckedWitness ==
    /\ variant = "app"
    /\ pc = "built"
    /\ ~Truthy(request.operation)
    /\ ~Truthy(request.resource_type)
    /\ "error" \in DOMAIN config
    /\ config.error = OperationError

\* C4, as stated: for every ParsedRequest whose operation is GET, DELETE or
\* UPDATE and whose identifier is unset, generate_resource_config returns
\* the error variant naming the missing identifier, and generate_response
\* on it returns an apology that contains that error string.
IdentifierErrorForEveryRequest ==
    (/\ variant = "app"
     /\ pc \in { "built", "rendered" }
     /\ request.operation \in { GET, DELETE, UPDATE }
     /\ ~Truthy(request.identifier)) =>
        /\ config = [ error          |-> IdentifierError(request.operation),
                      parsed_request |-> request ]
        /\ pc = "rendered" =>
              /\ Contains(response, <<"I couldn't process your request. ">>)
              /\ Contains(response, IdentifierError(request.operation))

\* C4, amended: the same for every such ParsedRequest whose resource_type is
\* set; for UPDATE the identifier is looked at before the properties, so
\* the identifier error is also the answer when the properties are empty.
IdentifierRequired ==
    (/\ variant = "app"
     /\ pc \in { "built", "rendered" }
     /\ request.operation \in { GET, DELETE, UPDATE }
     /\ Truthy(request.resource_type)
     /\ ~Truthy(request.identifier)) =>
        /\ config = [ error          |-> IdentifierError(request.operation),
                      parsed_request |-> request ]
        /\ pc = "rendered" =>
              /\ Contains(response, <<"I couldn't process your request. ">>)
              /\ Contains(response, IdentifierError(request.operation))

\* An UPDATE request with a resource type, no identifier and no properties
\* was answered with the identifier error, and the apology was rendered.
IdentifierRequiredWitness ==
    /\ variant = "app"
    /\ pc = "rendered"
    /\ request.operation = UPDATE
    /\ Truthy(request.resource_type)
    /\ ~Truthy(request.identifier)
    /\ request.properties = <<>>
    /\ Contains(response, <<"Identifier is required for ", "UPDATE", " operation">>)

\* C5, as stated: for every UPDATE ParsedRequest with an identifier, empty
\* properties give the error variant for empty properties, and otherwise
\* patch_document has one entry {op: "replace", path: "/" + key, value} per
\* item of properties, in the order of its items.
PatchDocumentForEveryUpdate ==
    (/\ variant = "app"
     /\ pc \in { "built", "rendered" }
     /\ request.operation = UPDATE
     /\ Truthy(request.identifier)) =>
        IF request.properties = <<>>
        THEN config = [ error |-> NoPropertiesError, parsed_request |-> request ]
        ELSE /\ "patch_document" \in DOMAIN config
             /\ Len(config.patch_document) = Len(request.properties)
             /\ \A i \in 1..Len(request.properties) :
                    config.patch_document[i] =
                        [ op    |-> <<"replace">>,
                          path  |-> <<"/">> \o request.properties[i][1],
                          value |-> request.properties[i][2] ]

\* C5, amended: the same for every UPDATE ParsedRequest with an identifier
\* whose resource_type is set.
PatchDocumentOneToOne ==
    (/\ variant = "app"
     /\ pc \in { "built", "rendered" }
     /\ request.operation = UPDATE
     /\ Truthy(request.resource_type)
     /\ Truthy(request.identifier)) =>
        IF request.properties = <<>>
        THEN config = [ error |-> NoPropertiesError, parsed_request |-> request ]
        ELSE /\ "patch_document" \in DOMAIN config
             /\ Len(config.patch_document) = Len(request.properties)
             /\ \A i \in 1..Len(request.properties) :
                    config.patch_document[i] =
                        [ op    |-> <<"replace">>,
                          path  |-> <<"/">> \o request.properties[i][1],
                          value |-> request.properties[i][2] ]

\* An UPDATE request with an identifier and two properties was turned into
\* a patch document of two entries whose paths differ.
PatchDocumentOneToOneWitness ==
    /\ variant = "app"
    /\ pc = "built"
    /\ request.operation = UPDATE
    /\ Len(request.properties) = 2
    /\ "patch_document" \in DOMAIN config
    /\ Len(config.patch_document) = 2
    /\ config.patch_document[1].path # config.patch_document[2].path

\* C6, as stated: for every CREATE ParsedRequest with a resource type and a
\* resource_name n, the desired_state of the returned config maps "Name" to
\* n, whatever the properties hold.
NameKeptInDesiredState ==
    (/\ variant = "app"
     /\ pc \in { "built", "rendered" }
     /\ request.operation = CREATE
     /\ Truthy(request.resource_type)
     /\ Truthy(request.resource_name)) =>
        /\ "desired_state" \in DOMAIN config
        /\ <<"Name">> \in Keys(config.desired_state)
        /\ Lookup(config.desired_state, <<"Name">>) = request.resource_name

\* C7: for every config with an error field and every result argument,
\* absent or present with any operation_status, generate_response returns
\* the apology around the stored error string and nothing else, in both
\* variants.
ErrorConfigApology ==
    (pc = "rendered" /\ "error" \in DOMAIN config) =>
        IF variant = "app"
        THEN response = <<"I couldn't process your request. ">> \o config.error
                            \o <<". Please provide more information.">>
        ELSE response = <<"I couldn't create the resource: ">> \o config.error

\* A config with an error field was rendered together with a FAILED result
\* that carries an error_code, and the text does not hold the error_code.
ErrorConfigApologyWitness ==
    /\ pc = "rendered"
    /\ "error" \in DOMAIN config
    /\ result # <<>>
    /\ "error_code" \in DOMAIN result[1]
    /\ result[1].operation_status = <<"FAILED">>
    /\ ~Contains(response, result[1].error_code)
    /\ Contains(response, config.error)

\* C8: for every config without an error field, of any operation, and
\* every result whose operation_status is FAILED, generate_response returns
\* the failure message, which holds the error_code and the status_message
\* of the result, and none of the texts of the operation branches or of the
\* other statuses, in both variants.
FailedResultReported ==
    (/\ pc = "rendered"
     /\ "error" \notin DOMAIN config
     /\ ~NoResult(result)
     /\ result[1].operation_status = <<"FAILED">>) =>
        /\ "error_code" \in DOMAIN result[1] =>
              Contains(response, result[1].error_code)
        /\ "status_message" \in DOMAIN result[1] =>
              Contains(response, result[1].status_message)
        /\ variant = "app" =>
              /\ response[1] = "The "
              /\ Contains(response, <<" failed with error code '">>)
        /\ variant = "ccapi" =>
              /\ response[1] = "The "
              /\ Contains(response, <<" resource failed.\n- Resource identifier: ">>)
        /\ \A started \in { "I've started creating a new ",
                            "Here are the details of the ",
                            "No ", "I found ",
                            "I've started updating the ",
                            "I've started deleting the ",
                            "I've started the ",
                            " resource was successful!\n- Resource identifier: ",
                            " resource is in state: " } :
              ~Contains(response, <<started>>)
        /\ response # FallbackResponse

\* A LIST config was rendered with the FAILED result of error_code
\* "AlreadyExists" and status_message "bucket taken", and the text holds
\* both.
FailedResultReportedWitness ==
    /\ pc = "rendered"
    /\ variant = "app"
    /\ "error" \notin DOMAIN config
    /\ config.operation = LIST
    /\ result # <<>>
    /\ "status_message" \in DOMAIN result[1]
    /\ result[1].operation_status = <<"FAILED">>
    /\ Contains(response, <<"AlreadyExists">>)
    /\ Contains(response, <<"bucket taken">>)

\* C9, as stated: for every config without an error field whose operation
\* is CREATE, GET, LIST, UPDATE or DELETE, generate_response without a
\* result returns a preview that ends with the proceed question; the LIST
\* preview names only the type, the GET and DELETE previews name the
\* identifier, the CREATE preview lists every pair of desired_state, and
\* the UPDATE preview lists every patch path without its leading slash.
PreviewDescribesRequest ==
    (/\ pc = "rendered"
     /\ "error" \notin DOMAIN config
     /\ NoResult(result)) =>
        /\ variant = "ccapi" => EndsWith(response, CcapiProceedQuestion)
        /\ (variant = "app"
            /\ config.operation \in { CREATE, GET, LIST, UPDATE, DELETE }) =>
              /\ EndsWith(response, <<"Would you like me to proceed?">>)
              /\ config.operation = LIST =>
                    response = <<"I'll list all ">> \o config.type_name
                                  \o <<" resources. ", "Would you like me to proceed?">>
              /\ config.operation \in { GET, DELETE } =>
                    Contains(response,
                             <<" resource with identifier '">> \o config.identifier)
              /\ config.operation = CREATE =>
                    \A i \in 1..Len(config.desired_state) :
                        Contains(response,
                                 config.desired_state[i][1] \o <<": ">>
                                     \o config.desired_state[i][2])
              /\ config.operation = UPDATE =>
                    \A i \in 1..Len(config.patch_document) :
                        Contains(response,
                                 Tail(config.patch_document[i].path) \o <<": ">>
                                     \o config.patch_document[i].value)

RenderingRepeatable ==
    pc = "returned_again" => again = call.text

\* C12: parse_request is deterministic: a second call on the same text
\* returns the ParsedRequest of the first, whatever the state of the schema
\* store and whatever the registry answers in between.
ParsingRepeatable ==
    pc = "parsed_again" => again = request

\* C13: template law: for a type whose schema is available and whose
\* required properties all appear in its property map, the keys of the
\* template generate_resource_template returns are exactly the required
\* properties when include_optional is false and exactly the properties of
\* the map when it is true, in both schema managers.
TemplateLaw ==
    (/\ pc = "returned"
     /\ call.op \in { "generate_resource_template",
                      "app_generate_resource_template" }
     /\ ~call.raised
     /\ call.type_name \in schema_manager.schemas
     /\ \A i \in 1..Len(RequiredOf(SchemaOf(call.type_name))) :
           \E j \in 1..Len(PropertyNamesOf(SchemaOf(call.type_name))) :
              PropertyNamesOf(SchemaOf(call.type_name))[j]
                  = RequiredOf(SchemaOf(call.type_name))[i])
    => LET required == RequiredOf(SchemaOf(call.type_name))
           property_map == PropertyNamesOf(SchemaOf(call.type_name))
       IN Keys(call.template)
            = IF call.include_optional
              THEN { property_map[i] : i \in 1..Len(property_map) }
              ELSE { required[i] : i \in 1..Len(required) }

\* A template without the optional property of a type that has one.
TemplateLawWitness ==
    /\ pc = "returned"
    /\ call.op = "generate_resource_template"
    /\ call.type_name = LambdaFunction
    /\ ~call.include_optional
    /\ Keys(call.template) = { Code, Role }

\* C14: validation law: for every type and config, validate_resource_config
\* returns valid = true exactly when every required property of the type is
\* a key of config, and otherwise valid = false with one error message that
\* lists the missing required properties, joined by commas in declared
\* order; in both schema managers.
ValidationLaw ==
    (/\ pc = "returned"
     /\ call.op \in { "validate_resource_config", "app_validate_resource_config" }
     /\ ~call.raised)
    => LET required == RequiredOf(SchemaOf(call.type_name))
           missing == SelectSeq(required, LAMBDA prop : prop \notin Keys(call.config))
       IN /\ call.valid <=> missing = <<>>
          /\ ~call.valid =>
               call.errors = << <<"Missing required properties: ">>
                                   \o Join(<<", ">>, missing) >>

\* What validate_resource_config of the schema-aware variant does keep: the
\* law holds for a type whose schema the schema manager holds or obtains;
\* when it obtains none the result is valid = false with the one message
\* "No schema found for <type>".
ValidationLawWithSchema ==
    (pc = "returned" /\ call.op = "validate_resource_config" /\ ~call.raised)
    => LET required == RequiredOf(SchemaOf(call.type_name))
           missing == SelectSeq(required, LAMBDA prop : prop \notin Keys(call.config))
       IN IF call.type_name \in schema_manager.schemas
          THEN /\ call.valid <=> missing = <<>>
               /\ call.valid => call.errors = <<>>
               /\ ~call.valid =>
                    call.errors = << <<"Missing required properties: ">>
                                        \o Join(<<", ">>, missing) >>
          ELSE /\ ~call.valid
               /\ call.errors = << <<"No schema found for ">> \o call.type_name >>

\* A table configuration without its two required properties.
ValidationLawWithSchemaWitness ==
    /\ pc = "returned"
    /\ call.op = "validate_resource_config"
    /\ call.type_name = DynamoDBTable
    /\ call.config = << <<BucketName, <<"foo">> >> >>
    /\ ~call.valid
    /\ call.errors = << <<"Missing required properties: ", "KeySchema", ", ",
                          "TableName">> >>

\* C15: schema absence is recoverable: get_schema returns the schema or
\* reports that there is none and never raises, in every state of the cache,
\* the schema directory and the registry, a file that is on disk but not in
\* the cache included.
GetSchemaNeverRaises ==
    (pc = "returned" /\ call.op = "get_schema") => ~call.raised

\* C17: generate_resource_config returns a value for every ParsedRequest in
\* every store state, and generate_response on that value returns text:
\* neither call raises.
GeneratorsNeverRaise ==
    pc # "raised"

\* C20: when download_schema returns True the type is in the cache
\* afterwards, whether it was fetched or found on disk; when it returns
\* False the cache is unchanged; the registry is asked at most once, and
\* only when the type has no local file.  (loaded_schemas holds the keys of
\* the cache: the code adds to both together.)
DownloadCaches ==
    (pc = "returned" /\ call.op = "download_schema")
    => /\ call.ok => call.type_name \in schema_manager.schemas
       /\ ~call.ok => schema_manager.schemas = call.before.schemas
       /\ call.queries <= 1
       /\ call.queries = 1 => call.type_name \notin call.before.files

\* C19: for a request that names a type, the schema-aware
\* generate_resource_config, when the schema is available, returns the error
\* "Missing required properties: " with exactly the required properties that
\* are no key of params, in declared order, if there is one, and the config
\* with params as desired_state if there is none; when no schema was
\* obtained it returns an error and never a config.
SchemaCheckedConfig ==
    (pc = "built" /\ variant = "ccapi" /\ "error" \notin DOMAIN request)
    => LET required == RequiredOf(SchemaOf(request.resource_type))
           missing == SelectSeq(required,
                                LAMBDA prop : prop \notin Keys(request.params))
       IN IF request.resource_type \in schema_manager.schemas
          THEN IF missing # <<>>
               THEN config = [ error |-> <<"Missing required properties: ">>
                                            \o Join(<<", ">>, missing) ]
               ELSE config = [ type_name     |-> request.resource_type,
                               desired_state |-> request.params ]
          ELSE /\ "error" \in DOMAIN config
               /\ "desired_state" \notin DOMAIN config

\* A table request that gives neither of the two required properties.
SchemaCheckedConfigWitness ==
    /\ pc = "built"
    /\ variant = "ccapi"
    /\ "error" \notin DOMAIN request
    /\ request.resource_type = DynamoDBTable
    /\ request.params = << <<BucketName, <<"foo">> >> >>
    /\ config = [ error |-> <<"Missing required properties: ", "KeySchema",
                              ", ", "TableName">> ]

\* C16: for a validation request whose text gives a resource type and no
\* properties, with a schema manager attached that holds the type's schema,
\* process_validation_request returns the full template of the type as the
\* configuration: its keys are all the properties of the schema.
ValidationUsesTemplate ==
    (/\ pc = "validation_processed"
     /\ vrequest.attached
     /\ vrequest.resource_type # None
     /\ ExtractProperties(text) = <<>>
     /\ vrequest.resource_type \in vrequest.before.schemas)
    => LET property_map == PropertyNamesOf(SchemaOf(vrequest.resource_type))
       IN Keys(vrequest.resource_config)
            = { property_map[i] : i \in 1..Len(property_map) }

\* C18: a request with execute false, or whose config is an error variant,
\* makes no backend call and carries no result; an executed request makes
\* exactly one backend call, the one of the config's operation.
BackendCallsMatch ==
    pc = "replied"
    => LET cfg == reply.resource_config IN
       IF "error" \in DOMAIN cfg \/ ~call.execute
       THEN backend = <<>> /\ reply.result = <<>>
       ELSE /\ Len(backend) = 1
            /\ backend[1].method =
                 (CASE cfg.operation = CREATE -> "create_resource"
                    [] cfg.operation = GET    -> "get_resource"
                    [] cfg.operation = LIST   -> "list_resources"
                    [] cfg.operation = UPDATE -> "update_resource"
                    [] cfg.operation = DELETE -> "delete_resource")
            /\ reply.result # <<>>

\* An executed delete request.
BackendCallsMatchWitness ==
    /\ pc = "replied"
    /\ call.execute
    /\ "error" \notin DOMAIN reply.resource_config
    /\ reply.resource_config.operation = DELETE
    /\ Len(backend) = 1
    /\ backend[1].method = "delete_resource"
    /\ Len(reply.result) = 1

\* C21: when an executed request with a non-error config has its backend
\* call raise, the endpoint still replies: the result has operation_status
\* FAILED, error_code ExecutionError and the exception text as
\* status_message, and the response text holds the error code and the text.
BackendFailureReported ==
    (/\ pc = "replied"
     /\ call.execute
     /\ "error" \notin DOMAIN reply.resource_config
     /\ call.answer.kind = "raise")
    => /\ Len(reply.result) = 1
       /\ DOMAIN reply.result[1]
            = { "operation", "operation_status", "type_name", "error_code",
                "status_message" }
       /\ reply.result[1].operation_status = <<"FAILED">>
       /\ reply.result[1].error_code = <<"ExecutionError">>
       /\ reply.result[1].status_message = call.answer.message
       /\ Contains(reply.response, <<"ExecutionError">>)
       /\ Contains(reply.response, call.answer.message)
       /\ Contains(reply.response, <<" failed with error code '">>)

\* An executed update whose backend call raised AccessDenied.
BackendFailureReportedWitness ==
    /\ pc = "replied"
    /\ call.execute
    /\ "error" \notin DOMAIN reply.resource_config
    /\ reply.resource_config.operation = UPDATE
    /\ call.answer = [ kind |-> "raise", message |-> <<"AccessDenied">> ]
    /\ Len(backend) = 1
    /\ Len(reply.result) = 1
    /\ reply.result[1].status_message = <<"AccessDenied">>

MalformedLiteralSwallowed ==
    (/\ pc \in { "parsed", "raised" }
     /\ JsonSpan(text) # <<>>
     /\ LET c == DropTrailingCommas(JsonSpan(text))
            short == [ i \in 1..Len(c) |-> IF c[i] = LongInteger THEN "1" ELSE c[i] ]
        IN JsonPairs(short, 1, <<>>).kind = "JSONDecodeError")
    => /\ pc = "parsed"
       /\ request.properties = KvScan(text, 1, <<>>)

\* C24: for a config that generate_resource_config built from what
\* parse_request returned, and a result that is absent or has
\* operation_status IN_PROGRESS, SUCCESS or FAILED, generate_response never
\* returns the fallback message.
FallbackUnreachable ==
    (/\ pc = "rendered"
     /\ variant = "app"
     /\ \/ result = <<>>
        \/ /\ "operation_status" \in DOMAIN result[1]
           /\ result[1].operation_status
                \in { <<"IN_PROGRESS">>, <<"SUCCESS">>, <<"FAILED">> })
    => /\ response # <<"I've processed your request, but I'm not sure how to describe the result.">>
       /\ ~Contains(response, <<"I'm not sure how to describe">>)

\* A delete request parsed from the text, rendered with an IN_PROGRESS
\* result.
FallbackUnreachableWitness ==
    /\ pc = "rendered"
    /\ variant = "app"
    /\ "error" \notin DOMAIN config
    /\ config.operation = DELETE
    /\ request.operation = DELETE
    /\ result # <<>>
    /\ "operation_status" \in DOMAIN result[1]
    /\ result[1].operation_status = <<"IN_PROGRESS">>
    /\ Contains(response, <<"I've started deleting the ">>)

\* C25: in every ParsedRequest that parse_request returns, identifier is
\* set only if operation is GET, UPDATE or DELETE; with CREATE, LIST or no
\* operation it is unset, whatever id phrase the text holds.
IdentifierOnlyForTargeted ==
    pc = "parsed"
    => /\ request.identifier # None
            => request.operation \in { <<"GET">>, <<"UPDATE">>, <<"DELETE">> }
       /\ request.operation \in { <<"CREATE">>, <<"LIST">>, None }
            => request.identifier = None

\* A create request whose text holds an id phrase, parsed without
\* identifier.
IdentifierOnlyForTargetedWitness ==
    /\ pc = "parsed"
    /\ request.operation = <<"CREATE">>
    /\ Contains(text, <<"id", ": ", "x1", ", ">>)
    /\ request.identifier = None

\* C26: parse_request yields operation LIST only for texts that hold
\* "list", "enumerate" or "find all" as a whole word and hold no CREATE
\* keyword and no GET keyword; a text whose only operation phrase is
\* "show all" or "get all" is classified as GET.
ListOnlyWithoutGetWords ==
    pc = "parsed"
    => LET low == Lower(text) IN
       /\ request.operation = <<"LIST">>
            => /\ SearchWords(low, { <<"list">>, <<"enumerate">>,
                                     <<"find", "all">> })
               /\ ~SearchWords(low, CreateWords)
               /\ ~SearchWords(low, GetWords)
       /\ (/\ SearchWords(low, { <<"show", "all">>, <<"get", "all">> })
           /\ ~SearchWords(low, CreateWords))
            => request.operation = <<"GET">>

\* The text "show all", parsed as a GET request.
ListOnlyWithoutGetWordsWitness ==
    /\ pc = "parsed"
    /\ text = <<"show", "all">>
    /\ request.operation = <<"GET">>

\* The text "find all", parsed as a LIST request.
FindAllListed ==
    /\ pc = "parsed"
    /\ text = <<"find", "all">>
    /\ request.operation = <<"LIST">>

\* C27: for a non-error config and two results that differ only in
\* operation_status, neither status being FAILED, generate_response
\* (operation-aware variant) returns the same text; for CREATE, UPDATE and
\* DELETE an IN_PROGRESS result and a SUCCESS result are both reported as
\* the operation having been started.
StatusBlindResponse ==
    (/\ pc = "rendered"
     /\ variant = "app"
     /\ "error" \notin DOMAIN config
     /\ result # <<>>
     /\ "operation_status" \in DOMAIN result[1]
     /\ result[1].operation_status # <<"FAILED">>)
    => /\ \A st \in Statuses \ { <<"FAILED">> } :
            generate_response(config,
                << [ result[1] EXCEPT !.operation_status = st ] >>) = response
       /\ (/\ config.operation \in { <<"CREATE">>, <<"UPDATE">>, <<"DELETE">> }
           /\ result[1].operation_status \in { <<"IN_PROGRESS">>, <<"SUCCESS">> })
            => response[1] \in { "I've started creating a new ",
                                 "I've started updating the ",
                                 "I've started deleting the " }

\* An update whose result reports SUCCESS, rendered as started.
StatusBlindResponseWitness ==
    /\ pc = "rendered"
    /\ variant = "app"
    /\ "error" \notin DOMAIN config
    /\ config.operation = <<"UPDATE">>
    /\ result # <<>>
    /\ "operation_status" \in DOMAIN result[1]
    /\ result[1].operation_status = <<"SUCCESS">>
    /\ "request_token" \in DOMAIN result[1]
    /\ response[1] = "I've started updating the "

\* C28: rule store round trip: get_rule_content(n) returns the content of
\* the most recent successful save_rule for n when no later delete_rule for
\* n succeeded, and None otherwise, a name with and without the suffix
\* denoting the same rule; delete_rule(n) returns True iff the rule existed;
\* list_rules returns exactly the stored rules; generate_example_rules
\* writes only when the store holds no rule and overwrites nothing.
RuleStoreRoundTrip ==
    pc = "rules"
    => /\ call.op = "get_rule_content"
            => call.ret = IF WithSuffix(call.rule_name) \in DOMAIN call.saved
                          THEN call.saved[WithSuffix(call.rule_name)]
                          ELSE None
       /\ call.op = "delete_rule"
            => call.ret = (WithSuffix(call.rule_name) \in DOMAIN call.saved)
       /\ call.op = "list_rules" => call.ret = DOMAIN call.saved
       /\ call.op = "generate_example_rules"
            => /\ rules_dir # call.before => DOMAIN call.saved = {}
               /\ \A n \in DOMAIN call.before :
                    n \in DOMAIN rules_dir /\ rules_dir[n] = call.before[n]

\* The laws of C28 other than the one of get_rule_content.
RuleStoreListing ==
    pc = "rules"
    => /\ call.op = "delete_rule"
            => call.ret = (WithSuffix(call.rule_name) \in DOMAIN call.saved)
       /\ call.op = "list_rules" => call.ret = DOMAIN call.saved
       /\ call.op = "generate_example_rules"
            => /\ rules_dir # call.before => DOMAIN call.saved = {}
               /\ \A n \in DOMAIN call.before :
                    n \in DOMAIN rules_dir /\ rules_dir[n] = call.before[n]

\* C29: validate_resource returns is_valid = true only if every named rule
\* was found and passed, or no rule was named and every stored rule passed;
\* a rule saved under a name, with or without the suffix, is the rule that
\* this name makes validate_resource evaluate.
NamedRulesEvaluated ==
    pc = "validated"
    => LET Passes(n) ==
               /\ WithSuffix(n) \in DOMAIN call.saved
               /\ call.verdicts[UniversalNewlines(call.saved[WithSuffix(n)])]
                    = "PASS"
       IN call.ret.is_valid
            => IF call.rule_names # <<>>
               THEN \A i \in 1..Len(call.rule_names) : Passes(call.rule_names[i])
               ELSE \A n \in DOMAIN call.saved : Passes(n)

\* The part of C29 about calls that name no rule.
UnnamedRulesEvaluated ==
    (pc = "validated" /\ call.rule_names = <<>>)
    => (call.ret.is_valid
            <=> \A n \in DOMAIN call.saved :
                    call.verdicts[UniversalNewlines(call.saved[n])] = "PASS")

\* C30: POST /resources answers with status 400 when the desired_state
\* fails schema validation, and with 400 when validate_policy is set and
\* the policy rules are violated, in both cases without a backend call;
\* the schema and template endpoints answer 404 when the schema or the
\* template cannot be found.
RejectionStatus ==
    pc = "responded"
    => /\ (call.op = "create_resource" /\ ~call.valid)
            => reply.status_code = 400 /\ backend = <<>>
       /\ (/\ call.op = "create_resource" /\ call.valid
           /\ call.validate_policy /\ ~call.complies)
            => reply.status_code = 400 /\ backend = <<>>
       /\ (call.op = "get_resource_schema" /\ ~call.found)
            => reply.status_code = 404
       /\ (call.op = "get_resource_template" /\ ~call.found)
            => reply.status_code = 404

\* The part of C30 about the backend: a request that fails schema
\* validation, or the policy check it asked for, makes no backend call.
RejectedBeforeBackend ==
    (/\ pc = "responded"
     /\ call.op = "create_resource"
     /\ ~call.valid \/ (call.validate_policy /\ ~call.complies))
    => backend = <<>>

=============================================================================
